---- MODULE Spec2Model ----
(***************************************************************************)
(* The Empathetic Code Reviewer: the keyword classifiers, the report       *)
(* orchestration of generate_review_report and the command-line main of    *)
(* empathetic_code_reviewer.py.                                            *)
(*                                                                         *)
(* Text is a sequence of one-character strings, so that str.lower() and    *)
(* the substring test `pattern in text` are computed, not assumed.         *)
(***************************************************************************)
EXTENDS Naturals, Sequences, FiniteSets, TLC

(***************************************************************************)
(* Text primitives of the Python runtime (ASCII).                          *)
(***************************************************************************)
UpperToLower ==
  "A" :> "a" @@ "B" :> "b" @@ "C" :> "c" @@ "D" :> "d" @@ "E" :> "e" @@ "F" :> "f" @@
  "G" :> "g" @@ "H" :> "h" @@ "I" :> "i" @@ "J" :> "j" @@ "K" :> "k" @@ "L" :> "l" @@
  "M" :> "m" @@ "N" :> "n" @@ "O" :> "o" @@ "P" :> "p" @@ "Q" :> "q" @@ "R" :> "r" @@
  "S" :> "s" @@ "T" :> "t" @@ "U" :> "u" @@ "V" :> "v" @@ "W" :> "w" @@ "X" :> "x" @@
  "Y" :> "y" @@ "Z" :> "z"

\* str.lower() on one character
lower_char(c) == IF c \in DOMAIN UpperToLower THEN UpperToLower[c] ELSE c

\* str.lower()
str_lower(s) == [i \in 1..Len(s) |-> lower_char(s[i])]

\* the substring test `pattern in text`
Contains(pattern, text) ==
  \E i \in 0..(Len(text) - Len(pattern)) :
     \A j \in 1..Len(pattern) : text[i + j] = pattern[j]

(***************************************************************************)
(* The keyword tables set up by __init__, in dict insertion order.         *)
(***************************************************************************)
severity_patterns == <<
  [severity |-> "critical", patterns |-> <<
     <<"t","e","r","r","i","b","l","e">>,   \* 'terrible'
     <<"a","w","f","u","l">>,   \* 'awful'
     <<"w","r","o","n","g">>,   \* 'wrong'
     <<"b","a","d">>,   \* 'bad'
     <<"b","r","o","k","e","n">>,   \* 'broken'
     <<"h","o","r","r","i","b","l","e">>,   \* 'horrible'
     <<"d","i","s","a","s","t","e","r">>    \* 'disaster'
  >>],
  [severity |-> "major", patterns |-> <<
     <<"i","n","e","f","f","i","c","i","e","n","t">>,   \* 'inefficient'
     <<"s","l","o","w">>,   \* 'slow'
     <<"p","o","o","r">>,   \* 'poor'
     <<"u","n","c","l","e","a","r">>,   \* 'unclear'
     <<"c","o","n","f","u","s","i","n","g">>,   \* 'confusing'
     <<"p","r","o","b","l","e","m","a","t","i","c">>    \* 'problematic'
  >>],
  [severity |-> "minor", patterns |-> <<
     <<"c","o","n","s","i","d","e","r">>,   \* 'consider'
     <<"c","o","u","l","d"," ","b","e">>,   \* 'could be'
     <<"m","i","g","h","t">>,   \* 'might'
     <<"p","e","r","h","a","p","s">>,   \* 'perhaps'
     <<"s","m","a","l","l">>,   \* 'small'
     <<"m","i","n","o","r">>    \* 'minor'
  >>],
  [severity |-> "style", patterns |-> <<
     <<"f","o","r","m","a","t">>,   \* 'format'
     <<"s","t","y","l","e">>,   \* 'style'
     <<"c","o","n","v","e","n","t","i","o","n">>,   \* 'convention'
     <<"n","a","m","i","n","g">>,   \* 'naming'
     <<"w","h","i","t","e","s","p","a","c","e">>,   \* 'whitespace'
     <<"i","n","d","e","n","t","a","t","i","o","n">>    \* 'indentation'
  >>]
>>

language_patterns == <<
  [language |-> "python", patterns |-> <<
     <<"d","e","f"," ">>,   \* 'def '
     <<"i","m","p","o","r","t"," ">>,   \* 'import '
     <<"c","l","a","s","s"," ">>,   \* 'class '
     <<":">>,   \* ':'
     <<"e","l","i","f">>,   \* 'elif'
     <<"l","a","m","b","d","a">>    \* 'lambda'
  >>],
  [language |-> "javascript", patterns |-> <<
     <<"f","u","n","c","t","i","o","n">>,   \* 'function'
     <<"v","a","r"," ">>,   \* 'var '
     <<"l","e","t"," ">>,   \* 'let '
     <<"c","o","n","s","t"," ">>,   \* 'const '
     <<"=",">">>,   \* '=>'
     <<"c","o","n","s","o","l","e",".","l","o","g">>    \* 'console.log'
  >>],
  [language |-> "java", patterns |-> <<
     <<"p","u","b","l","i","c"," ","c","l","a","s","s">>,   \* 'public class'
     <<"p","r","i","v","a","t","e"," ">>,   \* 'private '
     <<"p","u","b","l","i","c"," ">>,   \* 'public '
     <<"s","t","a","t","i","c"," ">>,   \* 'static '
     <<"v","o","i","d"," ","m","a","i","n">>    \* 'void main'
  >>],
  [language |-> "cpp", patterns |-> <<
     <<"#","i","n","c","l","u","d","e">>,   \* '#include'
     <<"s","t","d",":",":">>,   \* 'std::'
     <<"c","o","u","t">>,   \* 'cout'
     <<"e","n","d","l">>,   \* 'endl'
     <<"i","n","t"," ","m","a","i","n","(",")">>    \* 'int main()'
  >>],
  [language |-> "csharp", patterns |-> <<
     <<"u","s","i","n","g"," ","S","y","s","t","e","m">>,   \* 'using System'
     <<"p","u","b","l","i","c"," ","c","l","a","s","s">>,   \* 'public class'
     <<"C","o","n","s","o","l","e",".","W","r","i","t","e","L","i","n","e">>,   \* 'Console.WriteLine'
     <<"n","a","m","e","s","p","a","c","e">>    \* 'namespace'
  >>]
>>

(***************************************************************************)
(* config.py: the severity keywords of the configuration file.             *)
(***************************************************************************)
SEVERITY_KEYWORDS == <<
  [severity |-> "critical", patterns |-> <<
     <<"t","e","r","r","i","b","l","e">>,   \* 'terrible'
     <<"a","w","f","u","l">>,   \* 'awful'
     <<"w","r","o","n","g">>,   \* 'wrong'
     <<"b","a","d">>,   \* 'bad'
     <<"b","r","o","k","e","n">>,   \* 'broken'
     <<"h","o","r","r","i","b","l","e">>,   \* 'horrible'
     <<"d","i","s","a","s","t","e","r">>,   \* 'disaster'
     <<"c","o","m","p","l","e","t","e","l","y"," ","w","r","o","n","g">>,   \* 'completely wrong'
     <<"t","o","t","a","l","l","y"," ","b","r","o","k","e","n">>,   \* 'totally broken'
     <<"d","o","e","s","n","'","t"," ","w","o","r","k">>,   \* 'doesn't work'
     <<"f","a","i","l","s">>    \* 'fails'
  >>],
  [severity |-> "major", patterns |-> <<
     <<"i","n","e","f","f","i","c","i","e","n","t">>,   \* 'inefficient'
     <<"s","l","o","w">>,   \* 'slow'
     <<"p","o","o","r">>,   \* 'poor'
     <<"u","n","c","l","e","a","r">>,   \* 'unclear'
     <<"c","o","n","f","u","s","i","n","g">>,   \* 'confusing'
     <<"p","r","o","b","l","e","m","a","t","i","c">>,   \* 'problematic'
     <<"n","e","e","d","s"," ","i","m","p","r","o","v","e","m","e","n","t">>,   \* 'needs improvement'
     <<"s","h","o","u","l","d"," ","b","e"," ","f","i","x","e","d">>,   \* 'should be fixed'
     <<"m","a","j","o","r"," ","i","s","s","u","e">>    \* 'major issue'
  >>],
  [severity |-> "minor", patterns |-> <<
     <<"c","o","n","s","i","d","e","r">>,   \* 'consider'
     <<"c","o","u","l","d"," ","b","e">>,   \* 'could be'
     <<"m","i","g","h","t">>,   \* 'might'
     <<"p","e","r","h","a","p","s">>,   \* 'perhaps'
     <<"s","m","a","l","l">>,   \* 'small'
     <<"m","i","n","o","r">>,   \* 'minor'
     <<"s","u","g","g","e","s","t","i","o","n">>,   \* 'suggestion'
     <<"o","p","p","o","r","t","u","n","i","t","y">>,   \* 'opportunity'
     <<"e","n","h","a","n","c","e","m","e","n","t">>    \* 'enhancement'
  >>],
  [severity |-> "style", patterns |-> <<
     <<"f","o","r","m","a","t">>,   \* 'format'
     <<"s","t","y","l","e">>,   \* 'style'
     <<"c","o","n","v","e","n","t","i","o","n">>,   \* 'convention'
     <<"n","a","m","i","n","g">>,   \* 'naming'
     <<"w","h","i","t","e","s","p","a","c","e">>,   \* 'whitespace'
     <<"i","n","d","e","n","t","a","t","i","o","n">>,   \* 'indentation'
     <<"f","o","r","m","a","t","t","i","n","g">>,   \* 'formatting'
     <<"c","o","n","s","i","s","t","e","n","t">>,   \* 'consistent'
     <<"c","l","e","a","n"," ","u","p">>,   \* 'clean up'
     <<"p","o","l","i","s","h">>    \* 'polish'
  >>]
>>

(***************************************************************************)
(* detect_programming_language: the first language of the table with at    *)
(* least 2 patterns occurring in the lower-cased snippet, else python.     *)
(***************************************************************************)
\* pattern_score with the pattern lower-cased like the snippet
pattern_score_ignoring_case(patterns, code_lower) ==
  Cardinality({k \in 1..Len(patterns) : Contains(str_lower(patterns[k]), code_lower)})

\* score = sum(1 for pattern in patterns if pattern in code_lower)
pattern_score(patterns, code_lower) ==
  Cardinality({k \in 1..Len(patterns) : Contains(patterns[k], code_lower)})

\* detect_from with the threshold `score >= 2` weakened to `score >= 1`
RECURSIVE detect_from_threshold_one(_, _)
detect_from_threshold_one(i, code_lower) ==
  IF i > Len(language_patterns) THEN "python"
  ELSE IF pattern_score(language_patterns[i].patterns, code_lower) >= 1
       THEN language_patterns[i].language
       ELSE detect_from_threshold_one(i + 1, code_lower)

\* the loop `for language, patterns in self.language_patterns.items()` over
\* the table the reviewer holds, from entry i on, and the default after it
RECURSIVE detect_in(_, _, _)
detect_in(table, i, code_lower) ==
  IF i > Len(table) THEN "python"
  ELSE IF pattern_score(table[i].patterns, code_lower) >= 2
       THEN table[i].language
       ELSE detect_in(table, i + 1, code_lower)

\* the loop on the table as __init__ builds it
detect_from(i, code_lower) == detect_in(language_patterns, i, code_lower)

\* detect_programming_language without `code_snippet.lower()`
detect_programming_language_no_lower(code_snippet) ==
  detect_from(1, code_snippet)

detect_programming_language(code_snippet) ==
  detect_from(1, str_lower(code_snippet))

\* detect_programming_language of a reviewer whose table is `table`
detect_language_with(table, code_snippet) ==
  detect_in(table, 1, str_lower(code_snippet))

(***************************************************************************)
(* classify_comment_severity: the first severity of the table one of whose *)
(* patterns occurs in the lower-cased comment, else minor.                 *)
(***************************************************************************)
any_pattern(patterns, comment_lower) ==
  \E k \in 1..Len(patterns) : Contains(patterns[k], comment_lower)

\* the loop `for severity, patterns in self.severity_patterns.items()` over
\* the table the reviewer holds, from entry i on, and the default after it
RECURSIVE classify_in(_, _, _)
classify_in(table, i, comment_lower) ==
  IF i > Len(table) THEN "minor"
  ELSE IF any_pattern(table[i].patterns, comment_lower)
       THEN table[i].severity
       ELSE classify_in(table, i + 1, comment_lower)

\* the loop on the table as __init__ builds it
classify_from(i, comment_lower) == classify_in(severity_patterns, i, comment_lower)

\* classify_comment_severity without `comment.lower()`
classify_comment_severity_no_lower(comment) ==
  classify_from(1, comment)

classify_comment_severity(comment) ==
  classify_from(1, str_lower(comment))

\* classify_comment_severity of a reviewer whose table is `table`
classify_severity_with(table, comment) ==
  classify_in(table, 1, str_lower(comment))

(***************************************************************************)
(* Bounded input texts: concatenations of a few fragments.                 *)
(***************************************************************************)
MaxSnippetFrags == 2
MaxCommentFrags == 3

SnippetFragments == <<
  <<"d","e","f"," ","f"," ">>,   \* 'def f '
  <<"D","E","F"," ","F"," ">>,   \* 'DEF F '
  <<":"," ">>,   \* ': '
  <<"i","m","p","o","r","t"," ","o","s"," ">>,   \* 'import os '
  <<"f","u","n","c","t","i","o","n"," ">>,   \* 'function '
  <<"F","u","n","c","t","i","o","n"," ">>,   \* 'Function '
  <<"=",">"," ">>,   \* '=> '
  <<"p","u","b","l","i","c"," ","c","l","a","s","s"," ","C"," ">>,   \* 'public class C '
  <<"P","u","b","l","i","c"," ","C","l","a","s","s"," ","C"," ">>,   \* 'Public Class C '
  <<"s","t","a","t","i","c"," ">>,   \* 'static '
  <<"p","r","i","v","a","t","e"," ">>,   \* 'private '
  <<"#","i","n","c","l","u","d","e"," ">>,   \* '#include '
  <<"s","t","d",":",":"," ">>,   \* 'std:: '
  <<"u","s","i","n","g"," ","S","y","s","t","e","m",";"," ">>,   \* 'using System; '
  <<"n","a","m","e","s","p","a","c","e"," ","N"," ">>,   \* 'namespace N '
  <<"C","o","n","s","o","l","e",".","W","r","i","t","e","L","i","n","e"," ">>,   \* 'Console.WriteLine '
  <<"x","=","1"," ">>    \* 'x=1 '
>>

CommentFragments == <<
  <<"t","e","r","r","i","b","l","e"," ">>,   \* 'terrible '
  <<"T","E","R","R","I","B","L","E"," ">>,   \* 'TERRIBLE '
  <<"B","a","d"," ">>,   \* 'Bad '
  <<"s","l","o","w"," ">>,   \* 'slow '
  <<"U","n","c","l","e","a","r"," ">>,   \* 'Unclear '
  <<"m","i","g","h","t"," ">>,   \* 'might '
  <<"C","o","n","s","i","d","e","r"," ">>,   \* 'Consider '
  <<"s","t","y","l","e"," ">>,   \* 'style '
  <<"N","A","M","I","N","G"," ">>,   \* 'NAMING '
  <<"f","o","r","m","a","t"," ">>,   \* 'format '
  <<"f","i","x"," ">>,   \* 'fix '
  <<"o","k"," ">>,   \* 'ok '
  <<"f","a","i","l","s"," ">>,   \* 'fails '
  <<"p","o","l","i","s","h"," ">>    \* 'polish '
>>

\* the snippet of the specification's java example
JavaMainSnippet ==
  <<"p","u","b","l","i","c"," ","c","l","a","s","s"," ","F","o","o"," ","{"," ","p","u","b","l","i","c"," ","s","t","a","t","i","c"," ","v","o","i","d"," ","m","a","i","n","(","S","t","r","i","n","g","[","]"," ","a",")"," ","{","}"," ","}">>

RECURSIVE Texts(_, _)
Texts(frags, n) ==
  IF n = 0 THEN {<<>>}
  ELSE Texts(frags, n - 1) \cup
       {t \o frags[i] : t \in Texts(frags, n - 1), i \in DOMAIN frags}

Snippets == Texts(SnippetFragments, MaxSnippetFrags) \cup {JavaMainSnippet}
Comments == Texts(CommentFragments, MaxCommentFrags)

(***************************************************************************)
(* JSON values as json.load returns them.  A scalar is text (str) or a     *)
(* number; a document is a dict, a list or a number at top level.          *)
(***************************************************************************)
Str(text) == [type |-> "str", text |-> text]
Int(digits) == [type |-> "int", text |-> digits]

Keys == {"code_snippet", "review_comments"}

\* a dict with the keys `keys`; comments_type is the type of the value
\* under 'review_comments'
Dict(keys, snippet, comments_type, comments) ==
  [top |-> "dict", keys |-> keys, code_snippet |-> snippet,
   comments_type |-> comments_type, review_comments |-> comments]

\* a top-level list holding the strings `keys`, and a top-level number
ListDoc(keys) ==
  [top |-> "list", keys |-> keys, code_snippet |-> Str(<<>>),
   comments_type |-> "list", review_comments |-> <<>>]
IntDoc ==
  [top |-> "int", keys |-> {}, code_snippet |-> Str(<<>>),
   comments_type |-> "list", review_comments |-> <<>>]
NoDoc ==
  [top |-> "none", keys |-> {}, code_snippet |-> Str(<<>>),
   comments_type |-> "list", review_comments |-> <<>>]

(***************************************************************************)
(* Bounded inputs of a run.                                                *)
(***************************************************************************)
MaxArgs == 2       \* command-line arguments given: 0..MaxArgs
MaxComments == 2   \* entries of review_comments
MaxRuns == 2       \* runs of main, one after the other
MaxClock == 2      \* wall-clock seconds 0..MaxClock

RunSnippets == {
  Str(<<"x","=","1">>),
  Str(<<"p","u","b","l","i","c"," ","c","l","a","s","s"," ","C"," ">>)
}
RunComments == {
  Str(<<"B","a","d"," ","s","t","y","l","e">>),
  Str(<<"f","i","x">>)
}

RECURSIVE Lists(_, _)
Lists(S, n) ==
  IF n = 0 THEN {<<>>}
  ELSE Lists(S, n - 1) \cup {Append(l, x) : l \in Lists(S, n - 1), x \in S}

\* documents with both keys, a text snippet and a list of text comments
TextDocs ==
  {Dict(Keys, s, "list", cs) : s \in RunSnippets, cs \in Lists(RunComments, MaxComments)}

\* documents that lack a key or whose review_comments is not a list
InvalidDocs ==
  {Dict(ks, Str(<<"x","=","1">>), "list", <<>>) : ks \in (SUBSET Keys) \ {Keys}}
  \cup {Dict(Keys, Str(<<"x","=","1">>), "str", <<>>)}
  \cup {ListDoc(ks) : ks \in {{}, Keys}}
  \cup {IntDoc}

\* documents with both keys and a list, but a snippet or a comment that is
\* not text
NonTextDocs ==
  {Dict(Keys, Int(<<"5">>), "list", cs) : cs \in Lists(RunComments, 1)}
  \cup {Dict(Keys, Str(<<"x","=","1">>), "list", <<c, Int(<<"7">>)>>) : c \in RunComments}

Documents == TextDocs \cup InvalidDocs \cup NonTextDocs

\* what json.load finds in the input file (a top-level string or null fails
\* validation the way the list and the number do)
FileContents ==
  {[valid_json |-> TRUE, doc |-> d] : d \in Documents}
  \cup {[valid_json |-> FALSE, doc |-> NoDoc]}

\* text the model may answer with
ModelTexts == {"analysis A", "analysis B"}

\* what self.client.chat.completions.create and line 249 may do
ModelOutcomes ==
  {[kind |-> "text", text |-> t] : t \in ModelTexts}
  \cup {[kind |-> k, text |-> ""] :
          k \in {"api_error", "no_choices", "none_content", "interrupt"}}

(***************************************************************************)
(* generate_review_report, lines 293-302: input validation.                *)
(***************************************************************************)
\* `key in input_data`: TypeError when input_data is a number
KeyTestRaises(input) == input.top = "int"
HasKey(input, key) == key \in input.keys

\* validation_error without the isinstance check of line 301
validation_error_no_list_check(input) ==
  IF KeyTestRaises(input) THEN "TypeError: not iterable"
  ELSE IF ~HasKey(input, "code_snippet") \/ ~HasKey(input, "review_comments")
       THEN "ValueError: keys"
  ELSE IF input.top # "dict" THEN "TypeError: list indices"
  ELSE ""

\* the exception of lines 295-302, "" when none is raised
validation_error(input) ==
  IF KeyTestRaises(input) THEN "TypeError: not iterable"
  ELSE IF ~HasKey(input, "code_snippet") \/ ~HasKey(input, "review_comments")
       THEN "ValueError: keys"
  ELSE IF input.top # "dict" THEN "TypeError: list indices"
  ELSE IF input.comments_type # "list" THEN "ValueError: not a list"
  ELSE ""

(***************************************************************************)
(* analyze_code_review, lines 154-164: language and severities.            *)
(***************************************************************************)
\* x.lower() raises AttributeError when x is not text
IsText(x) == x.type = "str"

\* classification_raises looking at the snippet only
classification_raises_snippet_only(code_snippet, review_comments) ==
  ~IsText(code_snippet)

classification_raises(code_snippet, review_comments) ==
  \/ ~IsText(code_snippet)
  \/ \E k \in DOMAIN review_comments : ~IsText(review_comments[k])

comment_analysis_of(table, review_comments) ==
  [k \in DOMAIN review_comments |->
     [comment |-> review_comments[k].text,
      severity |-> classify_severity_with(table, review_comments[k].text)]]

(***************************************************************************)
(* _generate_fallback_analysis, lines 257-279.                             *)
(***************************************************************************)
SupportiveApproach == "Let's explore how we can improve this area together."

\* generate_fallback_analysis with the comments in reverse order
generate_fallback_analysis_reversed(code_snippet, review_comments) ==
  [block |-> "fallback", text |-> "",
   entries |-> [k \in DOMAIN review_comments |->
                  [original |-> review_comments[Len(review_comments) + 1 - k].text,
                   supportive |-> SupportiveApproach]],
   snippet |-> code_snippet.text]

generate_fallback_analysis(code_snippet, review_comments) ==
  [block |-> "fallback", text |-> "",
   entries |-> [k \in DOMAIN review_comments |->
                  [original |-> review_comments[k].text,
                   supportive |-> SupportiveApproach]],
   snippet |-> code_snippet.text]

ModelBody(text) ==
  [block |-> "model", text |-> text, entries |-> <<>>, snippet |-> <<>>]
\* the value None, and what the f-string of line 322 makes of an analysis
NoneValue ==
  [block |-> "NoneType", text |-> "", entries |-> <<>>, snippet |-> <<>>]
format_analysis(a) == IF a = NoneValue THEN ModelBody("None") ELSE a
NoBody ==
  [block |-> "none", text |-> "", entries |-> <<>>, snippet |-> <<>>]

(***************************************************************************)
(* The report templates of generate_review_report.                         *)
(***************************************************************************)
LowerToUpper ==
  [c \in {UpperToLower[u] : u \in DOMAIN UpperToLower} |->
     CHOOSE u \in DOMAIN UpperToLower : UpperToLower[u] = c]
upper_char(c) == IF c \in DOMAIN LowerToUpper THEN LowerToUpper[c] ELSE c
IsLetter(c) == c \in DOMAIN UpperToLower \/ c \in DOMAIN LowerToUpper

\* str.title() leaving the text as it is
str_title_unchanged(s) == s

\* str.title()
str_title(s) ==
  [i \in 1..Len(s) |->
     IF i = 1 \/ ~IsLetter(s[i - 1]) THEN upper_char(s[i]) ELSE lower_char(s[i])]

\* the language tags as text
tag_text ==
  [python |-> <<"p","y","t","h","o","n">>,
   javascript |-> <<"j","a","v","a","s","c","r","i","p","t">>,
   java |-> <<"j","a","v","a">>,
   cpp |-> <<"c","p","p">>,
   csharp |-> <<"c","s","h","a","r","p">>]

\* review_report counting the entries of the body instead of the comments
review_report_counting_entries(now, lang, review_comments, elapsed, body) ==
  [kind |-> "report",
   generated |-> now,
   language_detected |-> str_title(tag_text[lang]),
   comments_analyzed |-> Len(body.entries),
   processing_time |-> elapsed,
   body |-> body,
   footer |-> "Review Summary & Encouragement",
   error_details |-> ""]

\* lines 313-339: header, body, footer
review_report(now, lang, review_comments, elapsed, body) ==
  [kind |-> "report",
   generated |-> now,
   language_detected |-> str_title(tag_text[lang]),
   comments_analyzed |-> Len(review_comments),
   processing_time |-> elapsed,
   body |-> body,
   footer |-> "Review Summary & Encouragement",
   error_details |-> ""]

\* lines 349-381
error_report(now, details) ==
  [kind |-> "error",
   generated |-> now,
   language_detected |-> <<>>,
   comments_analyzed |-> 0,
   processing_time |-> 0,
   body |-> NoBody,
   footer |-> "",
   error_details |-> details]

NoReport ==
  [kind |-> "none", generated |-> 0, language_detected |-> <<>>,
   comments_analyzed |-> 0, processing_time |-> 0, body |-> NoBody,
   footer |-> "", error_details |-> ""]

NoPrompt == [language |-> "", code_snippet |-> <<>>, comment_analysis |-> <<>>]

(***************************************************************************)
(* The text of a report: the f-strings of lines 259-279, 313-339 and       *)
(* 349-381 with their values put in.  This is what main writes to the      *)
(* output file and what is read back from it.  A TLA+ string cannot hold   *)
(* the grave accent of the code fences: it is the element "GRAVE".         *)
(***************************************************************************)
\* _generate_fallback_analysis, lines 259-279: the text around the entries and
\* the snippet
fallback_template == <<
  <<
     "\n","#"," ","E","m","p","a","t","h","e","t","i","c"," ","C","o",
     "d","e"," ","R","e","v","i","e","w"," ","R","e","p","o","r","t",
     "\n","\n","#","#"," ","A","n","a","l","y","s","i","s"," ","E","r",
     "r","o","r"," ","R","e","c","o","v","e","r","y","\n","\n","I"," ",
     "e","n","c","o","u","n","t","e","r","e","d"," ","a","n"," ","i",
     "s","s","u","e"," ","w","h","i","l","e"," ","g","e","n","e","r",
     "a","t","i","n","g"," ","t","h","e"," ","f","u","l","l"," ","e",
     "m","p","a","t","h","e","t","i","c"," ","a","n","a","l","y","s",
     "i","s","."," ","H","e","r","e","'","s"," ","a"," ","b","a","s",
     "i","c"," ","s","u","p","p","o","r","t","i","v","e"," ","f","r",
     "a","m","e","w","o","r","k",":","\n","\n","#","#","#"," ","C","o",
     "d","e"," ","R","e","v","i","e","w"," ","C","o","m","m","e","n",
     "t","s"," ","T","r","a","n","s","f","o","r","m","a","t","i","o",
     "n","\n","\n" >>,
  <<
     "\n","\n","#","#","#"," ","C","o","d","e"," ","S","n","i","p","p",
     "e","t"," ","A","n","a","l","y","s","i","s","\n","GRAVE","GRAVE","GRAVE","p",
     "y","t","h","o","n","\n" >>,
  <<
     "\n","GRAVE","GRAVE","GRAVE","\n","\n","#","#","#"," ","E","n","c","o","u","r",
     "a","g","e","m","e","n","t","\n","E","v","e","r","y"," ","d","e",
     "v","e","l","o","p","e","r"," ","i","s"," ","o","n"," ","a"," ",
     "l","e","a","r","n","i","n","g"," ","j","o","u","r","n","e","y",
     ","," ","a","n","d"," ","c","o","d","e"," ","r","e","v","i","e",
     "w","s"," ","a","r","e"," ","v","a","l","u","a","b","l","e"," ",
     "o","p","p","o","r","t","u","n","i","t","i","e","s"," ","f","o",
     "r"," ","g","r","o","w","t","h","."," ","T","h","e"," ","s","u",
     "g","g","e","s","t","i","o","n","s"," ","p","r","o","v","i","d",
     "e","d"," ","a","r","e"," ","m","e","a","n","t"," ","t","o"," ",
     "h","e","l","p"," ","y","o","u"," ","w","r","i","t","e"," ","e",
     "v","e","n"," ","b","e","t","t","e","r"," ","c","o","d","e"," ",
     "a","n","d"," ","d","e","v","e","l","o","p"," ","s","t","r","o",
     "n","g","e","r"," ","p","r","o","g","r","a","m","m","i","n","g",
     " ","s","k","i","l","l","s",".","\n","\n","*","N","o","t","e",":",
     " ","T","h","i","s"," ","i","s"," ","a"," ","f","a","l","l","b",
     "a","c","k"," ","a","n","a","l","y","s","i","s"," ","d","u","e",
     " ","t","o"," ","A","P","I"," ","l","i","m","i","t","a","t","i",
     "o","n","s","."," ","T","h","e"," ","f","u","l","l"," ","s","y",
     "s","t","e","m"," ","w","o","u","l","d"," ","p","r","o","v","i",
     "d","e"," ","d","e","t","a","i","l","e","d",","," ","e","m","p",
     "a","t","h","e","t","i","c"," ","f","e","e","d","b","a","c","k",
     " ","f","o","r"," ","e","a","c","h"," ","c","o","m","m","e","n",
     "t",".","*","\n" >>
>>

\* line 268: the text around the comment and the two chr(10) of one entry
fallback_entry_template == <<
  <<
     "*","*","O","r","i","g","i","n","a","l","*","*",":"," " >>,
  << >>,
  <<
     "*","*","S","u","p","p","o","r","t","i","v","e"," ","A","p","p",
     "r","o","a","c","h","*","*",":"," ","L","e","t","'","s"," ","e",
     "x","p","l","o","r","e"," ","h","o","w"," ","w","e"," ","c","a",
     "n"," ","i","m","p","r","o","v","e"," ","t","h","i","s"," ","a",
     "r","e","a"," ","t","o","g","e","t","h","e","r","." >>,
  << >>
>>

\* generate_review_report, lines 313-339: the text around the five values
report_template == <<
  <<
     "#"," ","E","m","p","a","t","h","e","t","i","c"," ","C","o","d",
     "e"," ","R","e","v","i","e","w"," ","R","e","p","o","r","t","\n",
     "\n","*","*","G","e","n","e","r","a","t","e","d",":","*","*"," " >>,
  <<
     "\n","*","*","L","a","n","g","u","a","g","e"," ","D","e","t","e",
     "c","t","e","d",":","*","*"," " >>,
  <<
     "\n","*","*","C","o","m","m","e","n","t","s"," ","A","n","a","l",
     "y","z","e","d",":","*","*"," " >>,
  <<
     "\n","*","*","P","r","o","c","e","s","s","i","n","g"," ","T","i",
     "m","e",":","*","*"," " >>,
  <<
     " ","s","e","c","o","n","d","s","\n","\n","-","-","-","\n","\n" >>,
  <<
     "\n","\n","-","-","-","\n","\n","#","#"," ","R","e","v","i","e","w",
     " ","S","u","m","m","a","r","y"," ","&"," ","E","n","c","o","u",
     "r","a","g","e","m","e","n","t","\n","\n","T","h","i","s"," ","c",
     "o","d","e"," ","r","e","v","i","e","w"," ","r","e","p","r","e",
     "s","e","n","t","s"," ","a","n"," ","e","x","c","e","l","l","e",
     "n","t"," ","o","p","p","o","r","t","u","n","i","t","y"," ","f",
     "o","r"," ","g","r","o","w","t","h"," ","a","n","d"," ","l","e",
     "a","r","n","i","n","g","."," ","E","v","e","r","y"," ","p","i",
     "e","c","e"," ","o","f"," ","f","e","e","d","b","a","c","k"," ",
     "i","s"," ","m","e","a","n","t"," ","t","o"," ","h","e","l","p",
     " ","y","o","u"," ","b","e","c","o","m","e"," ","a","n"," ","e",
     "v","e","n"," ","s","t","r","o","n","g","e","r"," ","d","e","v",
     "e","l","o","p","e","r","."," ","R","e","m","e","m","b","e","r",
     " ","t","h","a","t"," ","a","l","l"," ","e","x","p","e","r","i",
     "e","n","c","e","d"," ","d","e","v","e","l","o","p","e","r","s",
     " ","h","a","v","e"," ","b","e","e","n"," ","t","h","r","o","u",
     "g","h"," ","s","i","m","i","l","a","r"," ","l","e","a","r","n",
     "i","n","g"," ","e","x","p","e","r","i","e","n","c","e","s",",",
     " ","a","n","d"," ","e","a","c","h"," ","s","u","g","g","e","s",
     "t","i","o","n"," ","i","s"," ","a"," ","s","t","e","p","p","i",
     "n","g"," ","s","t","o","n","e"," ","t","o","w","a","r","d"," ",
     "w","r","i","t","i","n","g"," ","m","o","r","e"," ","r","o","b",
     "u","s","t",","," ","m","a","i","n","t","a","i","n","a","b","l",
     "e"," ","c","o","d","e",".","\n","\n","K","e","e","p"," ","u","p",
     " ","t","h","e"," ","g","r","e","a","t"," ","w","o","r","k",",",
     " ","s","t","a","y"," ","c","u","r","i","o","u","s",","," ","a",
     "n","d"," ","r","e","m","e","m","b","e","r"," ","t","h","a","t",
     " ","c","o","d","i","n","g"," ","i","s"," ","a"," ","j","o","u",
     "r","n","e","y"," ","o","f"," ","c","o","n","t","i","n","u","o",
     "u","s"," ","i","m","p","r","o","v","e","m","e","n","t","."," ",
     "Y","o","u","r"," ","w","i","l","l","i","n","g","n","e","s","s",
     " ","t","o"," ","r","e","c","e","i","v","e"," ","f","e","e","d",
     "b","a","c","k"," ","s","h","o","w","s"," ","p","r","o","f","e",
     "s","s","i","o","n","a","l","i","s","m"," ","a","n","d"," ","d",
     "e","d","i","c","a","t","i","o","n"," ","t","o"," ","y","o","u",
     "r"," ","c","r","a","f","t",".","\n","\n","#","#"," ","T","e","c",
     "h","n","i","c","a","l"," ","D","e","t","a","i","l","s","\n","-",
     " ","*","*","A","n","a","l","y","s","i","s"," ","M","o","d","e",
     "l",":","*","*"," ","G","P","T","-","4"," ","w","i","t","h"," ",
     "E","m","p","a","t","h","e","t","i","c"," ","M","e","n","t","o",
     "r","i","n","g"," ","P","r","o","m","p","t","s","\n","-"," ","*",
     "*","C","o","n","t","e","x","t","u","a","l"," ","A","w","a","r",
     "e","n","e","s","s",":","*","*"," ","S","e","v","e","r","i","t",
     "y","-","b","a","s","e","d"," ","t","o","n","e"," ","a","d","a",
     "p","t","a","t","i","o","n","\n","-"," ","*","*","E","d","u","c",
     "a","t","i","o","n","a","l"," ","F","o","c","u","s",":","*","*",
     " ","S","o","f","t","w","a","r","e"," ","e","n","g","i","n","e",
     "e","r","i","n","g"," ","p","r","i","n","c","i","p","l","e","s",
     " ","a","n","d"," ","b","e","s","t"," ","p","r","a","c","t","i",
     "c","e","s","\n","-"," ","*","*","C","o","d","e"," ","Q","u","a",
     "l","i","t","y",":","*","*"," ","P","r","o","d","u","c","t","i",
     "o","n","-","r","e","a","d","y"," ","i","m","p","r","o","v","e",
     "m","e","n","t","s"," ","w","i","t","h"," ","e","x","p","l","a",
     "n","a","t","i","o","n","s","\n","\n","*","T","h","i","s"," ","e",
     "m","p","a","t","h","e","t","i","c"," ","a","n","a","l","y","s",
     "i","s"," ","w","a","s"," ","g","e","n","e","r","a","t","e","d",
     " ","b","y"," ","t","h","e"," ","E","m","p","a","t","h","e","t",
     "i","c"," ","C","o","d","e"," ","R","e","v","i","e","w","e","r",
     " ","-"," ","M","i","s","s","i","o","n"," ","1"," ","S","o","l",
     "u","t","i","o","n",","," ","d","e","s","i","g","n","e","d"," ",
     "t","o"," ","t","r","a","n","s","f","o","r","m"," ","c","r","i",
     "t","i","c","a","l"," ","f","e","e","d","b","a","c","k"," ","i",
     "n","t","o"," ","c","o","n","s","t","r","u","c","t","i","v","e",
     " ","g","r","o","w","t","h"," ","o","p","p","o","r","t","u","n",
     "i","t","i","e","s",".","*","\n" >>
>>

\* generate_review_report, lines 349-381: the text around the two values
error_report_template == <<
  <<
     "#"," ","E","m","p","a","t","h","e","t","i","c"," ","C","o","d",
     "e"," ","R","e","v","i","e","w"," ","-"," ","E","r","r","o","r",
     " ","R","e","p","o","r","t","\n","\n","*","*","E","r","r","o","r",
     " ","T","i","m","e",":","*","*"," " >>,
  <<
     "\n","*","*","E","r","r","o","r"," ","D","e","t","a","i","l","s",
     ":","*","*"," " >>,
  <<
     "\n","\n","#","#"," ","E","r","r","o","r"," ","A","n","a","l","y",
     "s","i","s","\n","\n","T","h","e"," ","E","m","p","a","t","h","e",
     "t","i","c"," ","C","o","d","e"," ","R","e","v","i","e","w","e",
     "r"," ","e","n","c","o","u","n","t","e","r","e","d"," ","a","n",
     " ","i","s","s","u","e"," ","w","h","i","l","e"," ","p","r","o",
     "c","e","s","s","i","n","g"," ","y","o","u","r"," ","r","e","q",
     "u","e","s","t","."," ","T","h","i","s"," ","c","o","u","l","d",
     " ","b","e"," ","d","u","e"," ","t","o",":","\n","\n","#","#","#",
     " ","P","o","s","s","i","b","l","e"," ","C","a","u","s","e","s",
     "\n","-"," ","*","*","I","n","p","u","t"," ","F","o","r","m","a",
     "t","*","*",":"," ","E","n","s","u","r","e"," ","J","S","O","N",
     " ","c","o","n","t","a","i","n","s"," ","'","c","o","d","e","_",
     "s","n","i","p","p","e","t","'"," ","a","n","d"," ","'","r","e",
     "v","i","e","w","_","c","o","m","m","e","n","t","s","'"," ","k",
     "e","y","s","\n","-"," ","*","*","A","P","I"," ","L","i","m","i",
     "t","s","*","*",":"," ","O","p","e","n","A","I"," ","A","P","I",
     " ","q","u","o","t","a","s"," ","o","r"," ","r","a","t","e"," ",
     "l","i","m","i","t","s"," ","m","a","y"," ","h","a","v","e"," ",
     "b","e","e","n"," ","e","x","c","e","e","d","e","d","\n","-"," ",
     "*","*","N","e","t","w","o","r","k"," ","I","s","s","u","e","s",
     "*","*",":"," ","T","e","m","p","o","r","a","r","y"," ","c","o",
     "n","n","e","c","t","i","v","i","t","y"," ","p","r","o","b","l",
     "e","m","s","\n","-"," ","*","*","I","n","v","a","l","i","d"," ",
     "C","o","d","e","*","*",":"," ","C","o","d","e"," ","s","n","i",
     "p","p","e","t"," ","m","a","y"," ","c","o","n","t","a","i","n",
     " ","p","a","r","s","i","n","g"," ","i","s","s","u","e","s","\n",
     "\n","#","#","#"," ","R","e","c","o","m","m","e","n","d","e","d",
     " ","S","o","l","u","t","i","o","n","s","\n","1","."," ","*","*",
     "V","e","r","i","f","y"," ","I","n","p","u","t"," ","F","o","r",
     "m","a","t","*","*",":"," ","E","n","s","u","r","e"," ","y","o",
     "u","r"," ","i","n","p","u","t"," ","f","o","l","l","o","w","s",
     " ","t","h","e"," ","r","e","q","u","i","r","e","d"," ","J","S",
     "O","N"," ","s","t","r","u","c","t","u","r","e","\n","2","."," ",
     "*","*","C","h","e","c","k"," ","A","P","I"," ","K","e","y","*",
     "*",":"," ","V","e","r","i","f","y"," ","y","o","u","r"," ","O",
     "p","e","n","A","I"," ","A","P","I"," ","k","e","y"," ","i","s",
     " ","v","a","l","i","d"," ","a","n","d"," ","h","a","s"," ","a",
     "v","a","i","l","a","b","l","e"," ","c","r","e","d","i","t","s",
     "\n","3","."," ","*","*","T","r","y"," ","A","g","a","i","n","*",
     "*",":"," ","T","e","m","p","o","r","a","r","y"," ","i","s","s",
     "u","e","s"," ","o","f","t","e","n"," ","r","e","s","o","l","v",
     "e"," ","w","i","t","h"," ","r","e","t","r","y","\n","4","."," ",
     "*","*","U","s","e"," ","D","e","m","o"," ","M","o","d","e","*",
     "*",":"," ","R","u","n"," ","t","h","e"," ","d","e","m","o"," ",
     "v","e","r","s","i","o","n"," ","t","o"," ","s","e","e"," ","e",
     "x","p","e","c","t","e","d"," ","o","u","t","p","u","t"," ","f",
     "o","r","m","a","t","\n","\n","#","#","#"," ","E","x","a","m","p",
     "l","e"," ","I","n","p","u","t"," ","F","o","r","m","a","t","\n",
     "GRAVE","GRAVE","GRAVE","j","s","o","n","\n","{","\n"," "," ","\"","c","o","d",
     "e","_","s","n","i","p","p","e","t","\"",":"," ","\"","d","e","f",
     " ","e","x","a","m","p","l","e","_","f","u","n","c","t","i","o",
     "n","(",")",":","\n"," "," "," "," ","r","e","t","u","r","n"," ",
     "'","H","e","l","l","o"," ","W","o","r","l","d","'","\"",",","\n",
     " "," ","\"","r","e","v","i","e","w","_","c","o","m","m","e","n",
     "t","s","\"",":"," ","[","\"","T","h","i","s"," ","f","u","n","c",
     "t","i","o","n"," ","c","o","u","l","d"," ","b","e"," ","i","m",
     "p","r","o","v","e","d","\"",","," ","\"","C","o","n","s","i","d",
     "e","r"," ","a","d","d","i","n","g"," ","d","o","c","u","m","e",
     "n","t","a","t","i","o","n","\"","]","\n","}","\n","GRAVE","GRAVE","GRAVE","\n",
     "\n","E","v","e","n"," ","w","h","e","n"," ","e","n","c","o","u",
     "n","t","e","r","i","n","g"," ","t","e","c","h","n","i","c","a",
     "l"," ","i","s","s","u","e","s",","," ","r","e","m","e","m","b",
     "e","r"," ","t","h","a","t"," ","t","h","e"," ","g","o","a","l",
     " ","o","f"," ","c","o","d","e"," ","r","e","v","i","e","w"," ",
     "i","s"," ","a","l","w","a","y","s"," ","t","o"," ","s","u","p",
     "p","o","r","t"," ","y","o","u","r"," ","g","r","o","w","t","h",
     " ","a","s"," ","a"," ","d","e","v","e","l","o","p","e","r",".",
     " ","T","e","c","h","n","i","c","a","l"," ","d","i","f","f","i",
     "c","u","l","t","i","e","s"," ","a","r","e"," ","j","u","s","t",
     " ","p","a","r","t"," ","o","f"," ","t","h","e"," ","p","r","o",
     "g","r","a","m","m","i","n","g"," ","j","o","u","r","n","e","y",
     "!","\n","\n","*","E","r","r","o","r"," ","h","a","n","d","l","i",
     "n","g"," ","b","y"," ","E","m","p","a","t","h","e","t","i","c",
     " ","C","o","d","e"," ","R","e","v","i","e","w","e","r"," ","-",
     " ","M","i","s","s","i","o","n"," ","1"," ","S","o","l","u","t",
     "i","o","n","*","\n" >>
>>

\* str() of a natural number
DecimalDigits == <<"0","1","2","3","4","5","6","7","8","9">>
RECURSIVE str_int(_)
str_int(n) ==
  IF n < 10 THEN <<DecimalDigits[n + 1]>>
  ELSE str_int(n \div 10) \o <<DecimalDigits[(n % 10) + 1]>>

\* f"{processing_time:.2f}" of a whole number of seconds
format_2f(seconds) == str_int(seconds) \o <<".","0","0">>

\* strftime('%Y-%m-%d %H:%M:%S') of the second `now` of the minute the
\* clock starts in
strftime(now) ==
  <<"2","0","2","5","-","0","1","-","0","1"," ","0","0",":","0","0",":">>
  \o (IF now < 10 THEN <<"0">> ELSE <<>>) \o str_int(now)

\* chr(10).join(texts)
RECURSIVE join_lines(_)
join_lines(texts) ==
  IF Len(texts) = 0 THEN <<>>
  ELSE IF Len(texts) = 1 THEN texts[1]
  ELSE texts[1] \o <<"\n">> \o join_lines(Tail(texts))

\* the characters of the texts the model holds as whole strings
text_chars ==
  "analysis A" :> <<"a","n","a","l","y","s","i","s"," ","A">> @@
  "analysis B" :> <<"a","n","a","l","y","s","i","s"," ","B">> @@
  "None" :> <<"N","o","n","e">>

\* str(e) of the exception the handler of line 344 caught
str_e ==
  "ValueError: keys" :>
     <<"I","n","p","u","t"," ","m","u","s","t"," ","c","o","n","t","a","i","n"," ",
       "'","c","o","d","e","_","s","n","i","p","p","e","t","'"," ","a","n","d"," ",
       "'","r","e","v","i","e","w","_","c","o","m","m","e","n","t","s","'"," ",
       "k","e","y","s">> @@
  "ValueError: not a list" :>
     <<"'","r","e","v","i","e","w","_","c","o","m","m","e","n","t","s","'"," ",
       "m","u","s","t"," ","b","e"," ","a"," ","l","i","s","t">> @@
  "TypeError: not iterable" :>
     <<"a","r","g","u","m","e","n","t"," ","o","f"," ","t","y","p","e"," ",
       "'","i","n","t","'"," ","i","s"," ","n","o","t"," ",
       "i","t","e","r","a","b","l","e">> @@
  "TypeError: list indices" :>
     <<"l","i","s","t"," ","i","n","d","i","c","e","s"," ","m","u","s","t"," ",
       "b","e"," ","i","n","t","e","g","e","r","s"," ","o","r"," ",
       "s","l","i","c","e","s",","," ","n","o","t"," ","s","t","r">> @@
  "AttributeError" :>
     <<"'","i","n","t","'"," ","o","b","j","e","c","t"," ","h","a","s"," ","n","o"," ",
       "a","t","t","r","i","b","u","t","e"," ","'","l","o","w","e","r","'">>

\* the {analysis} of line 322: the model's text, or the fallback text of
\* lines 259-279
analysis_text(body) ==
  IF body.block = "fallback"
  THEN fallback_template[1]
       \o join_lines([k \in DOMAIN body.entries |->
                        fallback_entry_template[1] \o body.entries[k].original
                        \o <<"\n">> \o fallback_entry_template[3] \o <<"\n">>])
       \o fallback_template[2] \o body.snippet \o fallback_template[3]
  ELSE text_chars[body.text]

\* the report as text
report_text(r) ==
  IF r.kind = "report"
  THEN report_template[1] \o strftime(r.generated)
       \o report_template[2] \o r.language_detected
       \o report_template[3] \o str_int(r.comments_analyzed)
       \o report_template[4] \o format_2f(r.processing_time)
       \o report_template[5] \o analysis_text(r.body)
       \o report_template[6]
  ELSE error_report_template[1] \o strftime(r.generated)
       \o error_report_template[2] \o str_e[r.error_details]
       \o error_report_template[3]

VARIABLES
  fnInput,     \* the text handed to a classifier
  fnResult,    \* what the classifier returned ("" before the call)
  runs,        \* runs of main started so far
  clock,       \* the wall clock, in seconds
  files,       \* the output files on disk: timestamp of the name -> content
  written_log, \* every write of a report so far, in order: name and content
  self_severity_patterns,  \* the reviewer's severity table (<<>>: no reviewer)
  self_language_patterns,  \* the reviewer's language table
  pc,          \* where the current run of main is
  argc,        \* len(sys.argv) - 1: the arguments main is started with
  file_exists, \* os.path.exists(input_file)
  api_key,     \* os.getenv('OPENAI_API_KEY'): "unset" (None), "empty", "set"
  file_read,   \* the input file has been opened and read
  input_data,  \* json.load(f)
  language,    \* analyze_code_review's language ("" before it is set)
  comment_analysis,
  prompt,      \* the user message built from the classified inputs
  outcome,     \* what the model call did ("none" before the call)
  model_calls, \* calls of the external model in this run
  analysis,    \* what analyze_code_review returned
  start_time,  \* generate_review_report's start_time
  report,      \* what generate_review_report returned
  written,     \* names (timestamps) of the files this run has written
  console,     \* the verdict main printed ("" while it runs)
  events       \* the steps of this run, in order

fnVars == <<fnInput, fnResult>>
diskVars == <<runs, files, written_log>>
selfVars == <<self_severity_patterns, self_language_patterns>>
runVars == <<pc, argc, file_exists, api_key, file_read, input_data, language,
             comment_analysis, prompt, outcome, model_calls, analysis,
             start_time, report, written, console, events>>
vars == <<fnVars, clock, diskVars, selfVars, runVars>>

ApiKeys == {"unset", "empty", "set"}

\* main's state before its first statement
FreshRun ==
  /\ self_severity_patterns = <<>>
  /\ self_language_patterns = <<>>
  /\ file_read = FALSE
  /\ input_data = NoDoc
  /\ language = ""
  /\ comment_analysis = <<>>
  /\ prompt = NoPrompt
  /\ outcome = "none"
  /\ model_calls = 0
  /\ analysis = NoBody
  /\ start_time = 0
  /\ report = NoReport
  /\ written = {}
  /\ console = ""
  /\ events = <<>>

\* main is started with some arguments, input file and environment
Init ==
  /\ runs = 1
  /\ clock = 0
  /\ files = <<>>
  /\ written_log = <<>>
  /\ pc = "main"
  /\ argc \in 0..MaxArgs
  /\ file_exists \in BOOLEAN
  /\ api_key \in ApiKeys
  /\ FreshRun
  /\ fnInput = <<>>
  /\ fnResult = ""

\* no run of main: the classifiers are called on their own
NoRun ==
  /\ runs = 0
  /\ clock = 0
  /\ files = <<>>
  /\ written_log = <<>>
  /\ pc = "done"
  /\ argc = 0
  /\ file_exists = FALSE
  /\ api_key = "unset"
  /\ FreshRun

(***************************************************************************)
(* main, lines 394-432: arguments, input file, credential.  Each check     *)
(* that fails prints its message and returns.                              *)
(***************************************************************************)
Return(verdict) == pc' = "done" /\ console' = verdict

\* lines 394-410: len(sys.argv) != 2
CheckArguments ==
  /\ pc = "main"
  /\ IF argc + 1 # 2 THEN Return("usage")
                      ELSE pc' = "check_file" /\ UNCHANGED console
  /\ UNCHANGED <<fnVars, clock, diskVars, selfVars, argc, file_exists, api_key, file_read,
                 input_data, language, comment_analysis, prompt, outcome,
                 model_calls, analysis, start_time, report, written, events>>

\* lines 414-418
CheckInputFile ==
  /\ pc = "check_file"
  /\ IF ~file_exists THEN Return("not_found")
                      ELSE pc' = "check_key" /\ UNCHANGED console
  /\ UNCHANGED <<fnVars, clock, diskVars, selfVars, argc, file_exists, api_key, file_read,
                 input_data, language, comment_analysis, prompt, outcome,
                 model_calls, analysis, start_time, report, written, events>>

\* CheckApiKey with `if not api_key` written `if api_key is None`
CheckApiKeyNoneOnly ==
  /\ pc = "check_key"
  /\ IF api_key = "unset" THEN Return("key_required")
                          ELSE pc' = "read_input" /\ UNCHANGED console
  /\ UNCHANGED <<fnVars, clock, diskVars, selfVars, argc, file_exists, api_key, file_read,
                 input_data, language, comment_analysis, prompt, outcome,
                 model_calls, analysis, start_time, report, written, events>>

\* lines 420-432: `if not api_key` holds for None and for the empty string
CheckApiKey ==
  /\ pc = "check_key"
  /\ IF api_key # "set" THEN Return("key_required")
                        ELSE pc' = "read_input" /\ UNCHANGED console
  /\ UNCHANGED <<fnVars, clock, diskVars, selfVars, argc, file_exists, api_key, file_read,
                 input_data, language, comment_analysis, prompt, outcome,
                 model_calls, analysis, start_time, report, written, events>>

(***************************************************************************)
(* main, lines 435-446 and 472-474: open the input file, json.load, then   *)
(* EmpathethicCodeReviewer(api_key), whose __init__ (lines 37-52) builds    *)
(* the two tables.                                                         *)
(***************************************************************************)
ReadInputFrom(contents) ==
  /\ pc = "read_input"
  /\ file_read' = TRUE
  /\ events' = Append(events, "read_input")
  /\ \E content \in contents :
       IF content.valid_json
       THEN /\ input_data' = content.doc
            /\ self_severity_patterns' = severity_patterns
            /\ self_language_patterns' = language_patterns
            /\ pc' = "validate"
            /\ UNCHANGED console
       ELSE /\ Return("invalid_json")
            /\ UNCHANGED <<input_data, selfVars>>
  /\ UNCHANGED <<fnVars, clock, diskVars, argc, file_exists, api_key,
                 language, comment_analysis, prompt, outcome,
                 model_calls, analysis, start_time, report, written>>

ReadInput == ReadInputFrom(FileContents)

(***************************************************************************)
(* generate_review_report, lines 291-304 and the handler of lines 344-382: *)
(* a validation error becomes the error report that is returned to main.   *)
(***************************************************************************)
Validate ==
  /\ pc = "validate"
  /\ start_time' = clock
  /\ events' = Append(events, "validate")
  /\ IF validation_error(input_data) # ""
     THEN /\ report' = error_report(clock, validation_error(input_data))
          /\ pc' = "write"
     ELSE /\ pc' = "classify"
          /\ UNCHANGED report
  /\ UNCHANGED <<fnVars, clock, diskVars, selfVars, argc, file_exists, api_key, file_read,
                 input_data, language, comment_analysis, prompt, outcome,
                 model_calls, analysis, written, console>>

(***************************************************************************)
(* analyze_code_review, lines 154-164.  An AttributeError of .lower() is   *)
(* not caught in analyze_code_review: it reaches the handler of            *)
(* generate_review_report (lines 344-382).                                 *)
(***************************************************************************)
\* Classify of a reviewer that forgets the table entry of the language it
\* has just detected
ClassifyForgetting ==
  /\ pc = "classify"
  /\ events' = events \o (IF IsText(input_data.code_snippet)
                           THEN <<"detect_language", "classify_comments">>
                           ELSE <<"detect_language">>)
  /\ language' = IF IsText(input_data.code_snippet)
                 THEN detect_language_with(self_language_patterns,
                                           input_data.code_snippet.text)
                 ELSE language
  /\ self_language_patterns' =
        SelectSeq(self_language_patterns, LAMBDA e : e.language # language')
  /\ IF classification_raises(input_data.code_snippet, input_data.review_comments)
     THEN /\ report' = error_report(clock, "AttributeError")
          /\ pc' = "write"
          /\ UNCHANGED comment_analysis
     ELSE /\ comment_analysis' = comment_analysis_of(self_severity_patterns,
                                                     input_data.review_comments)
          /\ pc' = "build_prompt"
          /\ UNCHANGED report
  /\ UNCHANGED <<fnVars, clock, diskVars, self_severity_patterns, argc,
                 file_exists, api_key, file_read,
                 input_data, prompt, outcome, model_calls, analysis,
                 start_time, written, console>>

Classify ==
  /\ pc = "classify"
  /\ events' = events \o (IF IsText(input_data.code_snippet)
                           THEN <<"detect_language", "classify_comments">>
                           ELSE <<"detect_language">>)
  /\ language' = IF IsText(input_data.code_snippet)
                 THEN detect_language_with(self_language_patterns,
                                           input_data.code_snippet.text)
                 ELSE language
  /\ IF classification_raises(input_data.code_snippet, input_data.review_comments)
     THEN /\ report' = error_report(clock, "AttributeError")
          /\ pc' = "write"
          /\ UNCHANGED comment_analysis
     ELSE /\ comment_analysis' = comment_analysis_of(self_severity_patterns,
                                                     input_data.review_comments)
          /\ pc' = "build_prompt"
          /\ UNCHANGED report
  /\ UNCHANGED <<fnVars, clock, diskVars, selfVars, argc, file_exists, api_key, file_read,
                 input_data, prompt, outcome, model_calls, analysis,
                 start_time, written, console>>

\* lines 167-233: the system prompt and the analysis prompt
BuildPrompt ==
  /\ pc = "build_prompt"
  /\ events' = Append(events, "build_prompt")
  /\ prompt' = [language |-> language,
                code_snippet |-> input_data.code_snippet.text,
                comment_analysis |-> comment_analysis]
  /\ pc' = "call_model"
  /\ UNCHANGED <<fnVars, clock, diskVars, selfVars, argc, file_exists, api_key, file_read,
                 input_data, language, comment_analysis, outcome, model_calls,
                 analysis, start_time, report, written, console>>

(***************************************************************************)
(* analyze_code_review, lines 235-255: the one call of the model.  The     *)
(* call returns text, returns a response without choices (IndexError at    *)
(* line 249) or with content None, raises an Exception, or the user        *)
(* interrupts it (KeyboardInterrupt, which `except Exception` lets pass to *)
(* main's handler of line 475).                                            *)
(***************************************************************************)
CallModelWith(outcomes) ==
  /\ pc = "call_model"
  /\ events' = Append(events, "call_model")
  /\ model_calls' = model_calls + 1
  /\ \E o \in outcomes :
       /\ outcome' = o.kind
       /\ CASE o.kind = "text" ->
                 analysis' = ModelBody(o.text) /\ pc' = "assemble" /\ UNCHANGED console
            [] o.kind = "none_content" ->
                 analysis' = NoneValue /\ pc' = "assemble" /\ UNCHANGED console
            [] o.kind \in {"api_error", "no_choices"} ->
                 pc' = "fallback" /\ UNCHANGED <<analysis, console>>
            [] o.kind = "interrupt" ->
                 Return("interrupted") /\ UNCHANGED analysis
  /\ UNCHANGED <<fnVars, clock, diskVars, selfVars, argc, file_exists, api_key, file_read,
                 input_data, language, comment_analysis, prompt,
                 start_time, report, written>>

\* CallModel trying the call again after a failure
CallModelRetrying ==
  /\ pc = "call_model"
  /\ events' = Append(events, "call_model")
  /\ model_calls' = model_calls + 1
  /\ \E o \in ModelOutcomes :
       /\ outcome' = o.kind
       /\ CASE o.kind = "text" ->
                 analysis' = ModelBody(o.text) /\ pc' = "assemble" /\ UNCHANGED console
            [] o.kind = "none_content" ->
                 analysis' = NoneValue /\ pc' = "assemble" /\ UNCHANGED console
            [] o.kind \in {"api_error", "no_choices"} ->
                 /\ pc' = IF model_calls = 0 THEN "call_model" ELSE "fallback"
                 /\ UNCHANGED <<analysis, console>>
            [] o.kind = "interrupt" ->
                 Return("interrupted") /\ UNCHANGED analysis
  /\ UNCHANGED <<fnVars, clock, diskVars, selfVars, argc, file_exists, api_key, file_read,
                 input_data, language, comment_analysis, prompt,
                 start_time, report, written>>

CallModel == CallModelWith(ModelOutcomes)

\* lines 253-255: the handler returns the fallback analysis
Fallback ==
  /\ pc = "fallback"
  /\ events' = Append(events, "fallback")
  /\ analysis' = generate_fallback_analysis(input_data.code_snippet,
                                            input_data.review_comments)
  /\ pc' = "assemble"
  /\ UNCHANGED <<fnVars, clock, diskVars, selfVars, argc, file_exists, api_key, file_read,
                 input_data, language, comment_analysis, prompt, outcome,
                 model_calls, start_time, report, written, console>>

\* Assemble of a reviewer that classifies the comments again for the header
AssembleReclassifying ==
  /\ pc = "assemble"
  /\ events' = events \o <<"detect_language", "classify_comments", "assemble">>
  /\ report' = review_report(clock,
                             detect_language_with(self_language_patterns,
                                                  input_data.code_snippet.text),
                             input_data.review_comments,
                             clock - start_time,
                             format_analysis(analysis))
  /\ pc' = "write"
  /\ UNCHANGED <<fnVars, clock, diskVars, selfVars, argc, file_exists, api_key, file_read,
                 input_data, language, comment_analysis, prompt, outcome,
                 model_calls, analysis, start_time, written, console>>

\* generate_review_report, lines 310-342: the language is detected a second
\* time (line 311) for the header
Assemble ==
  /\ pc = "assemble"
  /\ events' = events \o <<"detect_language", "assemble">>
  /\ report' = review_report(clock,
                             detect_language_with(self_language_patterns,
                                                  input_data.code_snippet.text),
                             input_data.review_comments,
                             clock - start_time,
                             format_analysis(analysis))
  /\ pc' = "write"
  /\ UNCHANGED <<fnVars, clock, diskVars, selfVars, argc, file_exists, api_key, file_read,
                 input_data, language, comment_analysis, prompt, outcome,
                 model_calls, analysis, start_time, written, console>>

(***************************************************************************)
(* main, lines 449-457: the report goes to the file named after the        *)
(* second of the write; open(filename, 'w') replaces a file of that name.  *)
(* The disk accepts the write and the report text can be encoded.          *)
(***************************************************************************)
write_file(disk, name, content) ==
  [n \in DOMAIN disk \cup {name} |-> IF n = name THEN content ELSE disk[n]]

WriteReport ==
  /\ pc = "write"
  /\ events' = Append(events, "write")
  /\ files' = write_file(files, clock, report)
  /\ written_log' = Append(written_log, [name |-> clock, content |-> report])
  /\ written' = written \cup {clock}
  /\ Return("complete")
  /\ UNCHANGED <<fnVars, clock, runs, selfVars, argc, file_exists, api_key, file_read,
                 input_data, language, comment_analysis, prompt, outcome,
                 model_calls, analysis, start_time, report>>

\* main is started again, in a new process without a reviewer: the disk and
\* the clock are what the runs share
NewRun ==
  /\ pc = "done"
  /\ runs < MaxRuns
  /\ runs' = runs + 1
  /\ pc' = "main"
  /\ self_severity_patterns' = <<>>
  /\ self_language_patterns' = <<>>
  /\ argc' \in 0..MaxArgs
  /\ file_exists' \in BOOLEAN
  /\ api_key' \in ApiKeys
  /\ file_read' = FALSE
  /\ input_data' = NoDoc
  /\ language' = ""
  /\ comment_analysis' = <<>>
  /\ prompt' = NoPrompt
  /\ outcome' = "none"
  /\ model_calls' = 0
  /\ analysis' = NoBody
  /\ start_time' = 0
  /\ report' = NoReport
  /\ written' = {}
  /\ console' = ""
  /\ events' = <<>>
  /\ UNCHANGED <<fnVars, clock, files, written_log>>

\* a second passes
Tick ==
  /\ clock < MaxClock
  /\ clock' = clock + 1
  /\ UNCHANGED <<fnVars, diskVars, selfVars, runVars>>

Next ==
  \/ CheckArguments
  \/ CheckInputFile
  \/ CheckApiKey
  \/ ReadInput
  \/ Validate
  \/ Classify
  \/ BuildPrompt
  \/ CallModel
  \/ Fallback
  \/ Assemble
  \/ WriteReport
  \/ Tick

\* one run of main
Spec == Init /\ [][Next]_vars

(***************************************************************************)
(* SpecRuns: main run several times over the same disk, on fewer inputs.   *)
(***************************************************************************)
RerunContents ==
  {[valid_json |-> TRUE, doc |-> d] :
     d \in {Dict(Keys, Str(<<"x","=","1">>), "list", <<>>),
            Dict(Keys, Str(<<"p","u","b","l","i","c"," ","c","l","a","s","s"," ","C"," ">>),
                 "list", <<Str(<<"f","i","x">>)>>)}}

RerunOutcomes ==
  {[kind |-> "text", text |-> "analysis A"], [kind |-> "api_error", text |-> ""]}

NextRuns ==
  \/ CheckArguments
  \/ CheckInputFile
  \/ CheckApiKey
  \/ ReadInputFrom(RerunContents)
  \/ Validate
  \/ Classify
  \/ BuildPrompt
  \/ CallModelWith(RerunOutcomes)
  \/ Fallback
  \/ Assemble
  \/ WriteReport
  \/ NewRun
  \/ Tick

SpecRuns == Init /\ [][NextRuns]_vars

(***************************************************************************)
(* The demo, src/demo_empathetic_reviewer.py.  The interpreter compiles    *)
(* the whole file before it runs any of it.  A string literal that opens   *)
(* with three double quotes ends at the next three double quotes, so the   *)
(* text _generate_comprehensive_sample means to return (lines 22-131) is   *)
(* cut into literals by the docstrings of the code samples it shows.       *)
(***************************************************************************)
\* the line of each triple double quote of the file, in file order
demo_triple_quotes ==
  <<2, 8, 15, 15, 21, 21, 22, 32, 40, 107, 122, 131, 134, 134, 150, 184, 189, 189>>

\* a line strictly inside the k-th literal, for some k
InLiteral(line) ==
  \E k \in 1..(Len(demo_triple_quotes) \div 2) :
     demo_triple_quotes[2 * k - 1] < line /\ line < demo_triple_quotes[2 * k]

\* the lines that hold the Markdown of the sample analysis (lines 23-130)
\* and of the report template (lines 151-183): prose, not statements
demo_text_lines ==
  {line \in 23..183 :
     /\ line \in 23..130 \/ line \in 151..183
     /\ \A k \in DOMAIN demo_triple_quotes : demo_triple_quotes[k] # line}

\* "" when the file compiles, else the error the interpreter stops with
demo_compile_error ==
  IF \A line \in demo_text_lines : InLiteral(line) THEN "" ELSE "SyntaxError"

\* the first line the interpreter rejects (0: none)
demo_error_line ==
  LET bad == {line \in demo_text_lines : ~InLiteral(line)}
  IN IF bad = {} THEN 0 ELSE CHOOSE line \in bad : \A other \in bad : line <= other

\* generate_demo_report, lines 137-145: the built-in sample
sample_input ==
  Dict(Keys, Str(<<"d","e","f"," ","g","e","t","_","a","c","t","i","v","e","_","u","s","e","r","s">>),
       "list",
       <<Str(<<"T","h","i","s"," ","i","s"," ","i","n","e","f","f","i","c","i","e","n","t","."," ","D","o","n","'","t"," ","l","o","o","p"," ","t","w","i","c","e"," ","c","o","n","c","e","p","t","u","a","l","l","y",".">>),
         Str(<<"V","a","r","i","a","b","l","e"," ","'","u","'"," ","i","s"," ","a"," ","b","a","d"," ","n","a","m","e",".">>),
         Str(<<"B","o","o","l","e","a","n"," ","c","o","m","p","a","r","i","s","o","n"," ","'","=","="," ","T","r","u","e","'"," ","i","s"," ","r","e","d","u","n","d","a","n","t",".">>)>>)

\* a JSON value under 'review_comments' of a demo input: a list of values, a
\* string (held as the one entry of review_comments), or a number
DemoDicts ==
  {Dict(ks, Str(<<"x","=","1">>), "list", cs) :
     ks \in SUBSET Keys, cs \in Lists(RunComments \cup {Int(<<"7">>)}, MaxComments)}
  \cup {Dict(ks, Str(<<"x","=","1">>), "str", <<c>>) :
          ks \in {{"review_comments"}, Keys}, c \in RunComments}
  \cup {Dict(ks, Str(<<"x","=","1">>), "int", <<Int(<<"5">>)>>) :
          ks \in {{"review_comments"}, Keys}}

\* input_data.get('review_comments', sample_input['review_comments'])
demo_get_comments(demo_input) ==
  IF "review_comments" \in demo_input.keys THEN demo_input ELSE sample_input

\* len(review_comments): entries of a list, characters of a string; a
\* number has no len()
demo_len_raises(demo_input) == demo_get_comments(demo_input).comments_type = "int"
demo_len(demo_input) ==
  LET d == demo_get_comments(demo_input)
  IN IF d.comments_type = "str" THEN Len(d.review_comments[1].text)
     ELSE Len(d.review_comments)

NoDemoReport ==
  [kind |-> "none", generated |-> 0, language_detected |-> <<>>,
   comments_analyzed |-> 0, mode |-> "", body |-> "", raised |-> ""]
demo_raised(error) == [NoDemoReport EXCEPT !.kind = "raised", !.raised = error]

\* generate_demo_report, lines 133-186: a list or a number has no .get
generate_demo_report(now, demo_input) ==
  IF demo_input.top # "dict" THEN demo_raised("AttributeError")
  ELSE IF demo_len_raises(demo_input) THEN demo_raised("TypeError")
  ELSE [kind |-> "report",
        generated |-> now,
        language_detected |-> <<"P","y","t","h","o","n">>,
        comments_analyzed |-> demo_len(demo_input),
        mode |-> "Demo",
        body |-> "sample_analysis",
        raised |-> ""]

\* what a caller of generate_demo_report gets: the module has to compile
\* before the method exists
run_generate_demo_report(now, demo_input) ==
  IF demo_compile_error # "" THEN demo_raised(demo_compile_error)
  ELSE generate_demo_report(now, demo_input)

(***************************************************************************)
(* SpecDemo: generate_demo_report of the demo applied to a bounded dict.   *)
(***************************************************************************)
InitDemo ==
  /\ NoRun
  /\ fnInput \in DemoDicts
  /\ fnResult = NoDemoReport

CallDemoReport ==
  /\ fnResult = NoDemoReport
  /\ fnResult' = run_generate_demo_report(clock, fnInput)
  /\ UNCHANGED <<fnInput, clock, diskVars, selfVars, runVars>>

NextDemo == CallDemoReport \/ (fnResult = NoDemoReport /\ Tick)

SpecDemo == InitDemo /\ [][NextDemo]_vars

(***************************************************************************)
(* The demo's main, lines 188-235.                                         *)
(***************************************************************************)
\* what the path of sys.argv[1] leads to: no file, a file that is not JSON,
\* or a file holding a JSON document
DemoFiles ==
  {[exists |-> FALSE, valid_json |-> FALSE, doc |-> NoDoc],
   [exists |-> TRUE, valid_json |-> FALSE, doc |-> NoDoc]}
  \cup {[exists |-> TRUE, valid_json |-> TRUE, doc |-> d] :
          d \in DemoDicts \cup {ListDoc({}), ListDoc(Keys), IntDoc}}

\* the starts of the demo: arguments given and the file of the first one
DemoStarts == [argc : 0..MaxArgs, file : DemoFiles]

\* input_data = {}
EmptyDict == Dict({}, Str(<<>>), "list", <<>>)

\* lines 196-210: the input file when one is given and can be loaded, the
\* empty dict otherwise
demo_read_input(start) ==
  IF start.argc = 0 THEN EmptyDict
  ELSE IF ~start.file.exists \/ ~start.file.valid_json THEN EmptyDict
  ELSE start.file.doc

\* the demo before it has run
NoDemoRun ==
  [raised |-> "", report |-> NoDemoReport, written |-> {}, console |-> ""]

\* main, lines 188-235: read the input, generate the report, write it to
\* the file named after the second of the write; an exception of
\* generate_demo_report is not handled
demo_main(now, start) ==
  LET demo_report == generate_demo_report(now, demo_read_input(start))
  IN IF demo_report.kind = "raised"
     THEN [raised |-> demo_report.raised, report |-> NoDemoReport,
           written |-> {}, console |-> "generating"]
     ELSE [raised |-> "", report |-> demo_report,
           written |-> {now}, console |-> "complete"]

\* python demo_empathetic_reviewer.py: the file is compiled, then main runs
run_demo_main(now, start) ==
  IF demo_compile_error # ""
  THEN [raised |-> demo_compile_error, report |-> NoDemoReport,
        written |-> {}, console |-> ""]
  ELSE demo_main(now, start)

(***************************************************************************)
(* SpecDemoMain: the demo started on a bounded command line and file.      *)
(***************************************************************************)
InitDemoMain ==
  /\ NoRun
  /\ fnInput \in DemoStarts
  /\ fnResult = NoDemoRun

RunDemoMain ==
  /\ fnResult = NoDemoRun
  /\ fnResult' = run_demo_main(clock, fnInput)
  /\ UNCHANGED <<fnInput, clock, diskVars, selfVars, runVars>>

NextDemoMain == RunDemoMain \/ (fnResult = NoDemoRun /\ Tick)

SpecDemoMain == InitDemoMain /\ [][NextDemoMain]_vars

(***************************************************************************)
(* get_documentation_links, lines 100-136.                                 *)
(***************************************************************************)
\* the links of lines 116-130 and the generic one of line 134
PythonEfficiencyLinks ==
  <<"https://docs.python.org/3/tutorial/datastructures.html#list-comprehensions",
    "https://docs.python.org/3/library/itertools.html">>
PythonNamingLink == "https://peps.python.org/pep-0008/#naming-conventions"
PythonBooleanLink == "https://docs.python.org/3/library/stdtypes.html#truth-value-testing"
PythonFunctionLink == "https://docs.python.org/3/tutorial/controlflow.html#defining-functions"
JavaScriptEfficiencyLink ==
  "https://developer.mozilla.org/en-US/docs/Web/JavaScript/Reference/Global_Objects/Array"
JavaScriptNamingLink ==
  "https://developer.mozilla.org/en-US/docs/MDN/Writing_guidelines/Writing_style_guide/Code_style_guide/JavaScript#naming_conventions"
GenericLink == "https://en.wikipedia.org/wiki/Software_engineering_best_practices"

\* the words looked for in topic.lower()
topic_words ==
  [efficiency |-> <<"e","f","f","i","c","i","e","n","c","y">>,
   performance |-> <<"p","e","r","f","o","r","m","a","n","c","e">>,
   naming |-> <<"n","a","m","i","n","g">>,
   convention |-> <<"c","o","n","v","e","n","t","i","o","n">>,
   boolean |-> <<"b","o","o","l","e","a","n">>,
   function |-> <<"f","u","n","c","t","i","o","n">>,
   method |-> <<"m","e","t","h","o","d">>]

\* `word in topic.lower()`
in_topic(word, topic) == Contains(topic_words[word], str_lower(topic))

\* links.append(...) under a condition
append_if(condition, links, more) == IF condition THEN links \o more ELSE links

\* lines 114-123
python_links(topic) ==
  LET l1 == append_if(in_topic("efficiency", topic) \/ in_topic("performance", topic),
                      <<>>, PythonEfficiencyLinks)
      l2 == append_if(in_topic("naming", topic) \/ in_topic("convention", topic),
                      l1, <<PythonNamingLink>>)
      l3 == append_if(in_topic("boolean", topic), l2, <<PythonBooleanLink>>)
  IN append_if(in_topic("function", topic) \/ in_topic("method", topic),
               l3, <<PythonFunctionLink>>)

\* lines 126-130
javascript_links(topic) ==
  LET l1 == append_if(in_topic("efficiency", topic), <<>>, <<JavaScriptEfficiencyLink>>)
  IN append_if(in_topic("naming", topic), l1, <<JavaScriptNamingLink>>)

\* links[:2]
first_two(links) == SubSeq(links, 1, IF Len(links) < 2 THEN Len(links) ELSE 2)

\* get_documentation_links returning every link it has collected
get_documentation_links_unsliced(lang, topic) ==
  LET links == IF lang = "python" THEN python_links(topic)
               ELSE IF lang = "javascript" THEN javascript_links(topic)
               ELSE <<>>
  IN IF links = <<>> THEN <<GenericLink>> ELSE links

get_documentation_links(lang, topic) ==
  LET links == IF lang = "python" THEN python_links(topic)
               ELSE IF lang = "javascript" THEN javascript_links(topic)
               ELSE <<>>
  IN first_two(IF links = <<>> THEN <<GenericLink>> ELSE links)

\* bounded topics and languages
MaxTopicFrags == 2   \* fragments a topic is made of: 0..MaxTopicFrags
TopicFragments == <<
  <<"e","f","f","i","c","i","e","n","c","y"," ">>,   \* 'efficiency '
  <<"P","e","r","f","o","r","m","a","n","c","e"," ">>,   \* 'Performance '
  <<"n","a","m","i","n","g"," ">>,   \* 'naming '
  <<"C","O","N","V","E","N","T","I","O","N"," ">>,   \* 'CONVENTION '
  <<"b","o","o","l","e","a","n"," ">>,   \* 'boolean '
  <<"f","u","n","c","t","i","o","n"," ">>,   \* 'function '
  <<"m","e","t","h","o","d"," ">>,   \* 'method '
  <<"l","o","o","p","s"," ">>,   \* 'loops '
  <<"s","t","y","l","e"," ">>    \* 'style '
>>
Topics == Texts(TopicFragments, MaxTopicFrags)
LinkLanguages == {"python", "javascript", "java", "cpp", "Python"}

(***************************************************************************)
(* SpecLinks: get_documentation_links applied to a bounded language and    *)
(* topic.                                                                  *)
(***************************************************************************)
NoLinks == [called |-> FALSE, links |-> <<>>]

InitLinks ==
  /\ NoRun
  /\ fnInput \in [language : LinkLanguages, topic : Topics]
  /\ fnResult = NoLinks

CallLinks ==
  /\ fnResult = NoLinks
  /\ fnResult' = [called |-> TRUE,
                  links |-> get_documentation_links(fnInput.language, fnInput.topic)]
  /\ UNCHANGED <<fnInput, clock, diskVars, selfVars, runVars>>

NextLinks == CallLinks

SpecLinks == InitLinks /\ [][NextLinks]_vars

(***************************************************************************)
(* SpecDetect: detect_programming_language applied to a bounded snippet.   *)
(***************************************************************************)
InitDetect == NoRun /\ fnInput \in Snippets /\ fnResult = ""

CallDetect ==
  /\ fnResult = ""
  /\ fnResult' = detect_programming_language(fnInput)
  /\ UNCHANGED <<fnInput, clock, diskVars, selfVars, runVars>>

NextDetect == CallDetect

SpecDetect == InitDetect /\ [][NextDetect]_vars

(***************************************************************************)
(* SpecSeverity: classify_comment_severity applied to a bounded comment.   *)
(***************************************************************************)
InitSeverity == NoRun /\ fnInput \in Comments /\ fnResult = ""

CallClassify ==
  /\ fnResult = ""
  /\ fnResult' = classify_comment_severity(fnInput)
  /\ UNCHANGED <<fnInput, clock, diskVars, selfVars, runVars>>

NextSeverity == CallClassify

SpecSeverity == InitSeverity /\ [][NextSeverity]_vars

(***************************************************************************)
(* What the specification calls a case-insensitive substring match: the    *)
(* keyword and the text compared without regard to letter case.            *)
(***************************************************************************)
OccursIgnoringCase(keyword, text) ==
  \E i \in 0..(Len(text) - Len(keyword)) :
     \A j \in 1..Len(keyword) : lower_char(text[i + j]) = lower_char(keyword[j])

SeverityOrder == <<"critical", "major", "minor", "style">>
LanguageOrder == <<"python", "javascript", "java", "cpp", "csharp">>

KeywordsOf(severity) ==
  (CHOOSE e \in {severity_patterns[k] : k \in DOMAIN severity_patterns} :
      e.severity = severity).patterns

TokensOf(lang) ==
  (CHOOSE e \in {language_patterns[k] : k \in DOMAIN language_patterns} :
      e.language = lang).patterns

HasKeyword(severity, comment) ==
  \E k \in DOMAIN KeywordsOf(severity) :
     OccursIgnoringCase(KeywordsOf(severity)[k], comment)

\* the number of signature tokens of the language matching case-insensitively
TokenCount(lang, snippet) ==
  Cardinality({k \in DOMAIN TokensOf(lang) :
                 OccursIgnoringCase(TokensOf(lang)[k], snippet)})

Least(S) == CHOOSE n \in S : \A m \in S : n <= m

Classified == fnResult # ""

\* C6: classify_comment_severity returns the first severity, in the order
\* critical, major, minor, style, one of whose keywords occurs in the comment
\* as a case-insensitive substring, and minor when no keyword occurs; a
\* comment with a critical keyword is critical whatever else it contains.
SeverityIsFirstMatch ==
  Classified =>
    LET hits == {k \in DOMAIN SeverityOrder : HasKeyword(SeverityOrder[k], fnInput)}
    IN /\ hits # {} => fnResult = SeverityOrder[Least(hits)]
       /\ hits = {} => fnResult = "minor"
       /\ HasKeyword("critical", fnInput) => fnResult = "critical"

\* a comment with a critical keyword in capitals and a style keyword has
\* been classified
SeverityIsFirstMatchWitness ==
  /\ Classified
  /\ HasKeyword("critical", fnInput)
  /\ ~Contains(<<"t","e","r","r","i","b","l","e">>, fnInput)
  /\ HasKeyword("style", fnInput)
  /\ fnResult = "critical"

\* C7: detect_programming_language returns the first language, in the order
\* python, javascript, java, cpp, csharp, at least 2 of whose signature
\* tokens occur in the snippet as case-insensitive substrings.
LanguageIsFirstWithTwoTokens ==
  Classified =>
    LET hits == {k \in DOMAIN LanguageOrder : TokenCount(LanguageOrder[k], fnInput) >= 2}
    IN hits # {} => fnResult = LanguageOrder[Least(hits)]

\* C8: a snippet with fewer than 2 matching tokens for each of the five
\* languages is detected as python.
DefaultsToPython ==
  Classified =>
    /\ (\A k \in DOMAIN LanguageOrder : TokenCount(LanguageOrder[k], fnInput) < 2)
          => fnResult = "python"
    /\ (\A k \in DOMAIN language_patterns :
           pattern_score(language_patterns[k].patterns, str_lower(fnInput)) < 2)
          => fnResult = "python"

\* a snippet with one javascript token and no second token of any language
\* has been detected
DefaultsToPythonWitness ==
  /\ Classified
  /\ TokenCount("javascript", fnInput) = 1
  /\ \A k \in DOMAIN LanguageOrder : TokenCount(LanguageOrder[k], fnInput) < 2
  /\ fnResult = "python"

\* C9: a snippet with at least 2 java tokens and fewer than 2 python and
\* fewer than 2 javascript tokens is detected as java; the snippet
\* 'public class Foo { public static void main(String[] a) {} }' is one,
\* matching 'public class', 'public ', 'static ' and 'void main'.
JavaDetected ==
  /\ (Classified /\ TokenCount("java", fnInput) >= 2
        /\ TokenCount("python", fnInput) < 2
        /\ TokenCount("javascript", fnInput) < 2) => fnResult = "java"
  /\ (Classified /\ fnInput = JavaMainSnippet) =>
        /\ fnResult = "java"
        /\ TokenCount("python", fnInput) < 2
        /\ TokenCount("javascript", fnInput) < 2
        /\ {k \in DOMAIN TokensOf("java") :
              OccursIgnoringCase(TokensOf("java")[k], fnInput)} = {1, 3, 4, 5}

\* the specification's java example has been detected
JavaDetectedWitness ==
  /\ Classified
  /\ fnInput = JavaMainSnippet
  /\ fnResult = "java"

ConfigKeywordsOf(severity) ==
  (CHOOSE e \in {SEVERITY_KEYWORDS[k] : k \in DOMAIN SEVERITY_KEYWORDS} :
      e.severity = severity).patterns

HasConfigKeyword(severity, comment) ==
  \E k \in DOMAIN ConfigKeywordsOf(severity) :
     OccursIgnoringCase(ConfigKeywordsOf(severity)[k], comment)

\* C14: classify_comment_severity returns the severity that substring
\* matching against config.SEVERITY_KEYWORDS gives, in the order critical,
\* major, minor, style, with minor as the default.
SeverityFollowsConfig ==
  Classified =>
    LET hits == {k \in DOMAIN SeverityOrder :
                   HasConfigKeyword(SeverityOrder[k], fnInput)}
    IN fnResult = IF hits = {} THEN "minor" ELSE SeverityOrder[Least(hits)]

\* C18: detect_programming_language never returns csharp: the csharp tokens
\* 'using System' and 'Console.WriteLine' cannot occur in the lower-cased
\* snippet, and the other two need 'public class', which gives java, checked
\* earlier, a score of 2.
NeverCsharp ==
  Classified =>
     /\ fnResult \in {"python", "javascript", "java", "cpp"}
     /\ ~Contains(TokensOf("csharp")[1], str_lower(fnInput))
     /\ ~Contains(TokensOf("csharp")[3], str_lower(fnInput))
     /\ Contains(TokensOf("csharp")[2], str_lower(fnInput))
           => pattern_score(TokensOf("java"), str_lower(fnInput)) >= 2

\* a snippet in which two csharp tokens occur, letter case aside, has been
\* detected as something else
NeverCsharpWitness ==
  /\ Classified
  /\ TokenCount("csharp", fnInput) >= 2
  /\ TokenCount("python", fnInput) < 2
  /\ TokenCount("java", fnInput) < 2
  /\ fnResult = "python"

(***************************************************************************)
(* Properties of one run of main (Spec).                                  *)
(***************************************************************************)
Done == pc = "done"

\* the model call failed with an exception that analyze_code_review handles
ProviderFailed == outcome \in {"api_error", "no_choices"}

\* the input read lacks a key or its review_comments is not a list
InputInvalid ==
  /\ input_data # NoDoc
  /\ \/ input_data.top # "dict"
     \/ ~(Keys \subseteq input_data.keys)
     \/ input_data.comments_type # "list"

\* the input read has both keys, a text snippet and a list of text comments
InputIsText ==
  /\ input_data # NoDoc
  /\ ~InputInvalid
  /\ input_data.code_snippet.type = "str"
  /\ \A k \in DOMAIN input_data.review_comments :
        input_data.review_comments[k].type = "str"

\* C1: when the model call fails with an exception, the report returned is
\* the normal report (header, footer) whose body is the fallback block with
\* every original comment once and in input order, and main writes that
\* report to the output file and completes.
ProviderFailureYieldsFallbackReport ==
  (Done /\ ProviderFailed) =>
     /\ report.kind = "report"
     /\ report.footer = "Review Summary & Encouragement"
     /\ report.body.block = "fallback"
     /\ Len(report.body.entries) = Len(input_data.review_comments)
     /\ \A k \in DOMAIN input_data.review_comments :
           report.body.entries[k].original = input_data.review_comments[k].text
     /\ report.body.snippet = input_data.code_snippet.text
     /\ Cardinality(written) = 1
     /\ \A name \in written : name \in DOMAIN files /\ files[name] = report
     /\ console = "complete"

\* a run with two different comments whose model call raised has written
\* its report
ProviderFailureWitness ==
  /\ Done
  /\ outcome = "api_error"
  /\ Len(input_data.review_comments) = 2
  /\ input_data.review_comments[1] # input_data.review_comments[2]
  /\ \E name \in DOMAIN files : files[name].body.block = "fallback"

\* C2: when input validation fails, no output file is written by the run.
ValidationFailureWritesNoFile ==
  (Done /\ InputInvalid) => (written = {} /\ files = <<>>)

\* C3: when the input lacks a key or review_comments is not a list, the
\* model is never called in the run.
ValidationPrecedesModelCall ==
  InputInvalid =>
     /\ model_calls = 0
     /\ outcome = "none"
     /\ \A k \in DOMAIN events : events[k] # "call_model"
     /\ pc \in {"validate", "write", "done"}
     /\ pc # "validate" => report.kind = "error"

\* a run on a dict whose review_comments is not a list has ended without a
\* model call
ValidationPrecedesModelCallWitness ==
  /\ Done
  /\ input_data.top = "dict"
  /\ Keys \subseteq input_data.keys
  /\ input_data.comments_type # "list"
  /\ report.kind = "error"
  /\ model_calls = 0

\* C4: the model is called at most once in a run; after a failed call the
\* run goes to the fallback body without a second call.
AtMostOneModelCall ==
  /\ model_calls <= 1
  /\ Cardinality({k \in DOMAIN events : events[k] = "call_model"}) = model_calls
  /\ ProviderFailed =>
        /\ model_calls = 1
        /\ pc \in {"fallback", "assemble", "write", "done"}
        /\ pc # "fallback" => analysis.block = "fallback"

\* a run whose one model call failed has ended with the fallback body
AtMostOneModelCallWitness ==
  /\ Done
  /\ outcome = "no_choices"
  /\ model_calls = 1
  /\ report.body.block = "fallback"

\* C5: started with an argument count other than one, with a missing input
\* file, without the credential or with an input file that is not valid
\* JSON, main returns without a model call and without writing a file; a
\* missing credential is reported with the input file not read.
CredentialMissing == api_key \in {"unset", "empty"}

BadStartReturnsEarly ==
  /\ (Done /\ (argc # 1 \/ ~file_exists \/ CredentialMissing
               \/ console = "invalid_json")) =>
        /\ model_calls = 0
        /\ written = {}
        /\ files = <<>>
        /\ console \in {"usage", "not_found", "key_required", "invalid_json"}
  /\ CredentialMissing => ~file_read
  /\ (Done /\ CredentialMissing /\ argc = 1 /\ file_exists) =>
        console = "key_required"
  /\ console = "key_required" => (CredentialMissing /\ ~file_read)
  /\ (Done /\ argc # 1) => console = "usage"
  /\ (Done /\ argc = 1 /\ ~file_exists) => console = "not_found"

\* main, started with one argument, an existing file and an empty
\* credential, has returned
BadStartWitness ==
  /\ Done
  /\ argc = 1
  /\ file_exists
  /\ api_key = "empty"
  /\ console = "key_required"
  /\ ~file_read

\* C10 as stated: for every input that passes validation the report is
\* header, body and footer, with the number of comments in the header.
ValidatedInputYieldsFullReport ==
  (report.kind # "none" /\ input_data # NoDoc /\ ~InputInvalid) =>
     /\ report.kind = "report"
     /\ report.comments_analyzed = Len(input_data.review_comments)

\* C10, amended: for every input that passes validation and whose snippet
\* and comments are text, the report returned is header, body and footer,
\* the header shows the number of entries of review_comments, and for the
\* empty list the fallback body holds no comment entry.
TextInputYieldsFullReport ==
  (report.kind # "none" /\ InputIsText) =>
     /\ report.kind = "report"
     /\ report.comments_analyzed = Len(input_data.review_comments)
     /\ report.body.block \in {"model", "fallback"}
     /\ report.footer = "Review Summary & Encouragement"
     /\ (report.body.block = "fallback" /\ input_data.review_comments = <<>>)
           => report.body.entries = <<>>

\* the report for {"code_snippet": "x=1", "review_comments": []} has been
\* assembled around the fallback body
TextInputYieldsFullReportWitness ==
  /\ report.kind = "report"
  /\ input_data.code_snippet = Str(<<"x","=","1">>)
  /\ input_data.review_comments = <<>>
  /\ report.comments_analyzed = 0
  /\ report.body.block = "fallback"
  /\ report.body.entries = <<>>

\* the model call returned a response (with text, or with content None)
ProviderAnswered == outcome \in {"text", "none_content"}

\* C12: for a request of a text snippet and a list of text comments,
\* generate_review_report ends either with the model's text, unchanged, as
\* the body when the model call succeeds, or with the fallback body when it
\* fails; there is no third outcome.
TwoTerminalOutcomes ==
  (report.kind # "none" /\ InputIsText) =>
     /\ report.kind = "report"
     /\ \/ ProviderAnswered /\ analysis.block = "model" /\ report.body = analysis
        \/ ProviderFailed /\ report.body.block = "fallback"

\* C13: a response with no choices, or whose message has no text content,
\* is a provider failure: the body of the report is the fallback block.
MalformedResponseYieldsFallback ==
  (report.kind # "none" /\ outcome \in {"no_choices", "none_content"}) =>
     /\ report.kind = "report"
     /\ report.body.block = "fallback"

\* the input read has both keys and a list, but a snippet or a comment that
\* is not text
InputNonText ==
  /\ input_data # NoDoc
  /\ ~InputInvalid
  /\ \/ input_data.code_snippet.type # "str"
     \/ \E k \in DOMAIN input_data.review_comments :
           input_data.review_comments[k].type # "str"

\* C19: with both keys and a list, but a snippet or a comment that is not
\* text, generate_review_report makes no model call and returns the error
\* report; main writes it to the timestamped file and prints the completion
\* message.
NonTextInputYieldsErrorReport ==
  InputNonText =>
     /\ model_calls = 0
     /\ \A k \in DOMAIN events : events[k] # "call_model"
     /\ pc \in {"validate", "classify", "write", "done"}
     /\ pc \in {"write", "done"} =>
           /\ report.kind = "error"
           /\ report.error_details = "AttributeError"
     /\ Done =>
           /\ Cardinality(written) = 1
           /\ \A name \in written : name \in DOMAIN files /\ files[name] = report
           /\ console = "complete"

\* a run on a text snippet and a list whose second entry is a number has
\* ended
NonTextInputWitness ==
  /\ Done
  /\ InputNonText
  /\ input_data.code_snippet.type = "str"
  /\ Len(input_data.review_comments) = 2
  /\ input_data.review_comments[2].type = "int"
  /\ console = "complete"
  /\ \E name \in DOMAIN files : files[name].kind = "error"

(***************************************************************************)
(* Properties of several runs of main over one disk (SpecRuns).            *)
(***************************************************************************)
Constructed == self_language_patterns # <<>> \/ self_severity_patterns # <<>>

\* C17: no step of a run changes the tables the reviewer was built with,
\* so in every run, whatever ran before, the language of the run is the one
\* detect_programming_language gives for its snippet, each comment has the
\* severity classify_comment_severity gives for it, and the header of the
\* report shows the language that was placed in the prompt.
TablesNeverChange ==
  /\ Constructed =>
        /\ self_language_patterns = language_patterns
        /\ self_severity_patterns = severity_patterns
  /\ pc \in {"build_prompt", "call_model", "fallback", "assemble"} =>
        /\ language = detect_programming_language(input_data.code_snippet.text)
        /\ \A k \in DOMAIN comment_analysis :
              comment_analysis[k].severity =
                classify_comment_severity(input_data.review_comments[k].text)
  /\ report.kind = "report" =>
        /\ prompt.language = detect_programming_language(input_data.code_snippet.text)
        /\ report.language_detected = str_title(tag_text[prompt.language])

\* a later run has written a Java report while the disk still holds the
\* Python report of an earlier run
TablesNeverChangeWitness ==
  /\ runs >= 1
  /\ Done
  /\ report.kind = "report"
  /\ prompt.language = "java"
  /\ report.language_detected = <<"J","a","v","a">>
  /\ Len(comment_analysis) = 1
  /\ \E name \in DOMAIN files :
        /\ name \notin written
        /\ files[name].kind = "report"
        /\ files[name].language_detected = <<"P","y","t","h","o","n">>

\* C20: a run that produces a report writes it once, to the file named after
\* the second of the write, and every report written by any run so far is
\* still on disk with the content that was written.
WrittenReportsStayOnDisk ==
  /\ Cardinality(written) <= 1
  /\ (Done /\ report.kind # "none") => written # {}
  /\ \A k \in DOMAIN written_log :
        /\ written_log[k].name \in DOMAIN files
        /\ files[written_log[k].name] = written_log[k].content

(***************************************************************************)
(* The order of the steps of one run (Spec).                               *)
(***************************************************************************)
\* the place of a step in the order classification, prompt building, model
\* call (with its fallback), report assembly, write
StepRank ==
  [detect_language |-> 1, classify_comments |-> 1, build_prompt |-> 2,
   call_model |-> 3, fallback |-> 3, assemble |-> 4, write |-> 5]
Steps == {k \in DOMAIN events : events[k] \in DOMAIN StepRank}
Occurrences(step) == Cardinality({k \in DOMAIN events : events[k] = step})

\* C16: the steps of a run happen in the order classification, prompt
\* building, model call, report assembly, write; each step happens at most
\* once and none happens after a later one has started.
StrictlyLinearSteps ==
  /\ \A step \in DOMAIN StepRank : Occurrences(step) <= 1
  /\ \A i, j \in Steps : i < j => StepRank[events[i]] <= StepRank[events[j]]

\* the steps other than language detection
OtherSteps == {k \in Steps : events[k] # "detect_language"}

\* C16 as the code has it: every step but the language detection happens at
\* most once and in that order; the language is detected once as the first
\* step of classification and, in a run that reaches assembly, once more
\* after the model call (and the fallback), right before the assembly.
LinearStepsWithSecondDetection ==
  /\ \A step \in DOMAIN StepRank \ {"detect_language"} : Occurrences(step) <= 1
  /\ \A i, j \in OtherSteps : i < j => StepRank[events[i]] <= StepRank[events[j]]
  /\ Occurrences("detect_language") <= 2
  /\ \A k \in Steps :
        events[k] = "detect_language" =>
          \/ \A i \in Steps : i >= k
          \/ /\ events[k - 1] \in {"call_model", "fallback"}
             /\ k < Len(events) => events[k + 1] = "assemble"
  /\ Occurrences("assemble") = 1 => Occurrences("detect_language") = 2
  /\ Occurrences("assemble") = 0 => Occurrences("detect_language") <= 1

\* a run has ended whose model call failed: classification, prompt, call,
\* fallback, second detection, assembly, write
LinearStepsWitness ==
  /\ Done
  /\ events = <<"read_input", "validate", "detect_language", "classify_comments",
                "build_prompt", "call_model", "fallback", "detect_language",
                "assemble", "write">>

(***************************************************************************)
(* Properties of the demo (SpecDemo).                                      *)
(***************************************************************************)
\* C15: for every input dict the demo's generate_demo_report returns a
\* report, without a model call, whose comment count is the number of
\* entries under 'review_comments' when the key is present and 3 when it is
\* absent, whose language is Python and whose body is the sample analysis.
DemoReportCountsComments ==
  fnResult.kind # "none" =>
     /\ fnResult.kind = "report"
     /\ model_calls = 0
     /\ fnResult.comments_analyzed =
          (IF "review_comments" \in fnInput.keys
           THEN demo_len(fnInput) ELSE 3)
     /\ fnResult.language_detected = <<"P","y","t","h","o","n">>
     /\ fnResult.body = "sample_analysis"

(***************************************************************************)
(* The output file read back (Spec).                                       *)
(***************************************************************************)
\* the input has a text snippet and a list under 'review_comments': the
\* language of the snippet and the number of comments are defined
TagAndCountDefined ==
  /\ input_data.top = "dict"
  /\ Keys \subseteq input_data.keys
  /\ IsText(input_data.code_snippet)
  /\ input_data.comments_type = "list"

\* C11: the text read back from the file a run has written contains the
\* language tag exactly as detect_programming_language returns it for the
\* snippet, and the number of review comments of the input.
FileHoldsLiteralTagAndCount ==
  \A name \in written :
     TagAndCountDefined =>
        /\ Contains(tag_text[detect_programming_language(input_data.code_snippet.text)],
                    report_text(files[name]))
        /\ Contains(str_int(Len(input_data.review_comments)),
                    report_text(files[name]))

\* the header lines as they are read back
LanguageDetectedLabel ==
  <<"*","*","L","a","n","g","u","a","g","e"," ","D","e","t","e","c","t","e","d",":","*","*"," ">>
CommentsAnalyzedLabel ==
  <<"*","*","C","o","m","m","e","n","t","s"," ","A","n","a","l","y","z","e","d",":","*","*"," ">>
TitleTag ==
  [python |-> <<"P","y","t","h","o","n">>,
   javascript |-> <<"J","a","v","a","s","c","r","i","p","t">>,
   java |-> <<"J","a","v","a">>,
   cpp |-> <<"C","p","p">>,
   csharp |-> <<"C","s","h","a","r","p">>]

\* C11 as the code has it: a file that holds a header/body/footer report
\* has the line of the detected language with the tag in title case and the
\* line of the comment count with the number of review comments; the
\* fallback body has a code fence marked python whatever the language; a
\* file that holds the error report has neither header line.
FileHoldsTitleTagAndCount ==
  \A name \in written :
     LET text == report_text(files[name])
     IN /\ files[name].kind = "report" =>
              /\ TagAndCountDefined
              /\ Contains(LanguageDetectedLabel
                            \o TitleTag[detect_programming_language(
                                           input_data.code_snippet.text)]
                            \o <<"\n">>, text)
              /\ Contains(CommentsAnalyzedLabel
                            \o str_int(Len(input_data.review_comments))
                            \o <<"\n">>, text)
              /\ files[name].body.block = "fallback" =>
                    Contains(<<"GRAVE","GRAVE","GRAVE">> \o tag_text["python"], text)
        /\ files[name].kind = "error" =>
              /\ ~Contains(LanguageDetectedLabel, text)
              /\ ~Contains(CommentsAnalyzedLabel, text)

\* a run on a Java snippet with one comment has written the model's answer:
\* the file holds 'Java' on the language line and nowhere the tag 'java'
FileHoldsTitleTagWitness ==
  /\ Done
  /\ written # {}
  /\ TagAndCountDefined
  /\ language = "java"
  /\ Len(input_data.review_comments) = 1
  /\ \A name \in written :
        /\ files[name].kind = "report"
        /\ files[name].body.block = "model"
        /\ Contains(LanguageDetectedLabel \o <<"J","a","v","a","\n">>,
                    report_text(files[name]))
        /\ ~Contains(tag_text["java"], report_text(files[name]))

\* the built-in sample data is used: no argument, no such file, or a file
\* that is not JSON
DemoUsesSample ==
  fnInput.argc = 0 \/ ~fnInput.file.exists \/ ~fnInput.file.valid_json

\* C21: whatever the input file condition (no argument, a missing path, a
\* file that is not JSON, a file with any JSON document), the demo's main
\* returns without raising and has written exactly one demo report file; in
\* the first three cases the report is the one of the built-in sample.
DemoMainWritesOneReport ==
  fnResult # NoDemoRun =>
     /\ fnResult.raised = ""
     /\ Cardinality(fnResult.written) = 1
     /\ fnResult.report.kind = "report"
     /\ DemoUsesSample => fnResult.report.comments_analyzed = 3

(***************************************************************************)
(* Properties of get_documentation_links (SpecLinks).                      *)
(***************************************************************************)
\* a rule of the language matches the topic: one of its words occurs in the
\* topic, whatever the case
PythonRuleWords ==
  {"efficiency", "performance", "naming", "convention", "boolean", "function", "method"}
JavaScriptRuleWords == {"efficiency", "naming"}
RuleMatched ==
  \/ /\ fnInput.language = "python"
     /\ \E word \in PythonRuleWords : OccursIgnoringCase(topic_words[word], fnInput.topic)
  \/ /\ fnInput.language = "javascript"
     /\ \E word \in JavaScriptRuleWords : OccursIgnoringCase(topic_words[word], fnInput.topic)

\* C22: for every language and topic get_documentation_links returns at
\* least one and at most two links, and the generic best-practices link is
\* returned exactly when no rule of the language matched the topic (it is
\* then the only link).
LinksOneOrTwo ==
  fnResult.called =>
     /\ Len(fnResult.links) \in 1..2
     /\ (\E k \in DOMAIN fnResult.links : fnResult.links[k] = GenericLink) <=> ~RuleMatched
     /\ ~RuleMatched => fnResult.links = <<GenericLink>>

\* a python topic that matches the efficiency rule and the naming rule:
\* three links are collected and the first two are returned
LinksOneOrTwoWitness ==
  /\ fnResult.called
  /\ fnInput.language = "python"
  /\ OccursIgnoringCase(topic_words["performance"], fnInput.topic)
  /\ OccursIgnoringCase(topic_words["naming"], fnInput.topic)
  /\ fnResult.links = PythonEfficiencyLinks

====
